---- MODULE Spec2Model ----
(***************************************************************************)
(* A model of the YOLO grid demo: the GridManager (grid-manager.js), which *)
(* maps detections onto an N x N grid of cells, and the detection          *)
(* post-processor of YOLOSimulation (filter, format, sort, greedy NMS).    *)
(*                                                                         *)
(* Numbers.  JavaScript numbers are modelled exactly:                      *)
(*   - pixel lengths of the canvas and of boxes are integers;              *)
(*   - cell geometry (canvasWidth / gridSize) is a rational whose          *)
(*     denominator divides gridSize; it is stored as an integer count of   *)
(*     1/SubPx pixel, SubPx being a common multiple of the grid sizes;     *)
(*   - scores and thresholds are integer hundredths (0.9 is 90);           *)
(*   - a cell's confidence is a reduced fraction [n, d].                   *)
(* The grid sizes, canvas sizes and boxes of DetPool and RawPool are such   *)
(* that every comparison the source makes on them has the same outcome in  *)
(* double arithmetic as in exact arithmetic (a double may differ from the  *)
(* exact value in its last place, 0.09999999999999999 for 1/10, without    *)
(* crossing a threshold).                                                  *)
(*                                                                         *)
(* Where the last place decides, the section "GridManager in double        *)
(* arithmetic" repeats the geometry and the detection mapping in IEEE 754  *)
(* binary64, bit for bit (SpecF64).                                        *)
(***************************************************************************)
EXTENDS Integers, Sequences, FiniteSets, TLC

VARIABLES
    gridSize,        \* GridManager.gridSize
    canvasWidth,     \* GridManager.canvasWidth  (pixels)
    canvasHeight,    \* GridManager.canvasHeight (pixels)
    cells,           \* GridManager.cells: function 0..N*N-1 -> cell record
    activeCells,     \* GridManager.activeCells (a Set of cell ids)
    detections,      \* GridManager.detections (the list last passed in)
    isRunning,       \* GridManager.isRunning
    timeouts,        \* pending setTimeout(deactivateCell) callbacks: id -> count
    debugMode,       \* GridManager.debugMode (undefined, read as false, at first)
    confidenceThreshold, \* YOLOSimulation.confidenceThreshold (hundredths)
    iouThreshold,        \* YOLOSimulation.iouThreshold (hundredths)
    rawDetections,   \* the model's output handed to postprocessDetections
    frameData,       \* the frame it was computed on
    yoloDetections,  \* YOLOSimulation.detections: the last post-processed list
    onDetection,     \* YOLOSimulation.onDetection is set (to handleDetection)
    appIsRunning,    \* YOLOGridDemo.isRunning (main.js)
    appDetections,   \* YOLOGridDemo.state.detections
    cameraIsActive,  \* CameraHandler.isActive
    cameraStatus,    \* the status CameraHandler notified last
    stream,          \* CameraHandler.stream is set (a MediaStream is held)
    frameInterval,   \* CameraHandler.frameInterval is set (setInterval pending)
    frameCount,      \* CameraHandler.metrics.frameCount: frames handed to onFrame
    yoloIsRunning,   \* YOLOSimulation.isRunning
    isModelLoaded,   \* YOLOSimulation.isModelLoaded (model is set exactly then)
    modelLoads,      \* the number of loadModel() calls awaiting cocoSsd.load()
    inflight,        \* the frames whose processFrame awaits model.detect
    starts           \* the pending CameraHandler.start() and restart() calls:
                     \* where each waits and whether startCamera() awaits it

gridVars == <<gridSize, canvasWidth, canvasHeight, cells, activeCells,
              detections, isRunning, timeouts, debugMode>>
yoloVars == <<confidenceThreshold, iouThreshold, rawDetections, frameData,
              yoloDetections, onDetection>>
pipeVars == <<appIsRunning, appDetections, cameraIsActive, cameraStatus,
              stream, frameInterval, frameCount, yoloIsRunning, isModelLoaded,
              modelLoads, inflight, starts>>
vars == <<gridSize, canvasWidth, canvasHeight, cells, activeCells,
          detections, isRunning, timeouts, debugMode,
          confidenceThreshold, iouThreshold, rawDetections, frameData,
          yoloDetections, onDetection,
          appIsRunning, appDetections, cameraIsActive, cameraStatus,
          stream, frameInterval, frameCount, yoloIsRunning, isModelLoaded,
          modelLoads, inflight, starts>>

(***************************************************************************)
(* Bounds of the model                                                     *)
(***************************************************************************)
\* longest detection list passed to updateDetections
MaxDets == 2
\* most deactivation timeouts pending for one cell
MaxTimeouts == 2
\* longest raw detection list handed to postprocessDetections
MaxRaw == 3
\* most frames the camera hands to onFrame
MaxFrames == 3
\* most start() and restart() calls of the camera pending at once
MaxStarts == 2
\* most loadModel() calls pending at once
MaxLoads == 2
\* most processFrame() calls awaiting the model at once, when processFrame
\* is called directly
MaxInflight == 2

\* grid sizes and canvas sizes (pixels, as getBoundingClientRect reports
\* them) of the specification in which detections are mapped
GridSizes == {3, 4}
CanvasSizes == {<<300, 300>>, <<420, 210>>}
\* the app's grid sizes, and canvas sizes that are multiples of each of them
\* (7 * 13 * 19 = 1729), of the specification of the grid geometry
AppGridSizes == {7, 13, 19}
AppCanvasSizes == {<<1729, 1729>>, <<3458, 1729>>, <<1729, 3458>>}
\* sub-pixel resolution: every canvas length times SubPx is a multiple of
\* the grid size it is divided by
SubPx == 3 * 4
\* scores and thresholds are counted in 1/ScoreDen
ScoreDen == 10 * 10

(***************************************************************************)
(* Exact arithmetic                                                        *)
(***************************************************************************)
Max(a, b) == IF a >= b THEN a ELSE b
Min(a, b) == IF a <= b THEN a ELSE b

RECURSIVE GCD(_, _)
GCD(a, b) == IF b = 0 THEN a ELSE GCD(b, a % b)

\* the fraction n/d (n >= 0, d > 0) in lowest terms
Rat(n, d) == LET g == GCD(n, d) IN [n |-> n \div g, d |-> d \div g]

Zero == [n |-> 0, d |-> 1]

\* a < b for non-negative fractions, by continued-fraction descent (no
\* cross-multiplication, so no intermediate exceeds its operands)
RECURSIVE RatLT(_, _)
RatLT(a, b) ==
    LET qa == a.n \div a.d
        qb == b.n \div b.d
        ra == a.n % a.d
        rb == b.n % b.d
    IN  IF qa # qb THEN qa < qb
        ELSE IF rb = 0 THEN FALSE
        ELSE IF ra = 0 THEN TRUE
        ELSE RatLT([n |-> b.d, d |-> rb], [n |-> a.d, d |-> ra])

RatGT(a, b) == RatLT(b, a)
RatLE(a, b) == ~RatLT(b, a)

\* the literal h/100 of the source (0.7 is Hundredths(70))
Hundredths(h) == Rat(h, ScoreDen)

(***************************************************************************)
(* Detections                                                              *)
(***************************************************************************)
NoDetection == [class |-> "null"]

Det(id, class, score, bbox) ==
    [id |-> id, class |-> class, score |-> score, bbox |-> bbox]

\* the detections the grid is driven with: bbox is <<x, y, width, height>>
\* in canvas pixels, score in hundredths
DetPool ==
    { Det("a", "person", 90, <<50, 50, 80, 80>>),
      Det("b", "car",    90, <<0, 0, 200, 200>>),
      Det("c", "person", 90, <<0, 0, 100, 100>>) }

SeqsUpTo(S, n) == UNION { [1..k -> S] : k \in 0..n }

\* the lists handed to updateDetections: up to MaxDets distinct detections,
\* in any order
DetLists ==
    { D \in SeqsUpTo(DetPool, MaxDets) :
        \A i, j \in DOMAIN D : i # j => D[i] # D[j] }

(***************************************************************************)
(* GridManager: geometry                                                   *)
(***************************************************************************)
CellIds(N) == 0..(N * N - 1)

\* a plausible slip: a new cell starts 'active'
NewCellActive(i, N) ==
    [id |-> i, row |-> i \div N, col |-> i % N,
     x |-> 0, y |-> 0, width |-> 0, height |-> 0,
     state |-> "active", confidence |-> Zero, detection |-> NoDetection]

\* the cell createGrid pushes for index i
NewCell(i, N) ==
    [id |-> i, row |-> i \div N, col |-> i % N,
     x |-> 0, y |-> 0, width |-> 0, height |-> 0,
     state |-> "inactive", confidence |-> Zero, detection |-> NoDetection]

\* a plausible slip: repositioning a cell also clears what it shows
calculateCellPositionsClearing(cs, N, W, H) ==
    LET cellWidth  == (W * SubPx) \div N
        cellHeight == (H * SubPx) \div N
    IN  [i \in DOMAIN cs |->
            [cs[i] EXCEPT !.x = cs[i].col * cellWidth,
                          !.y = cs[i].row * cellHeight,
                          !.width = cellWidth,
                          !.height = cellHeight,
                          !.state = "inactive",
                          !.confidence = Zero,
                          !.detection = NoDetection]]

\* a plausible slip: x taken from the row and y from the column
calculateCellPositionsSwapped(cs, N, W, H) ==
    LET cellWidth  == (W * SubPx) \div N
        cellHeight == (H * SubPx) \div N
    IN  [i \in DOMAIN cs |->
            [cs[i] EXCEPT !.x = cs[i].row * cellWidth,
                          !.y = cs[i].col * cellHeight,
                          !.width = cellWidth,
                          !.height = cellHeight]]

\* calculateCellPositions: lengths in 1/SubPx pixel
calculateCellPositions(cs, N, W, H) ==
    LET cellWidth  == (W * SubPx) \div N
        cellHeight == (H * SubPx) \div N
    IN  [i \in DOMAIN cs |->
            [cs[i] EXCEPT !.x = cs[i].col * cellWidth,
                          !.y = cs[i].row * cellHeight,
                          !.width = cellWidth,
                          !.height = cellHeight]]

\* createGrid: a fresh cell array for size N, positioned on the W x H canvas
createGrid(N, W, H) ==
    calculateCellPositions([i \in CellIds(N) |-> NewCell(i, N)], N, W, H)

\* a plausible slip: the left edge of the cell taken as the left edge of the
\* intersection
calculateIntersectionNoLeftClamp(cell, bbox) ==
    LET left   == cell.x
        top    == Max(cell.y, bbox[2] * SubPx)
        right  == Min(cell.x + cell.width, (bbox[1] + bbox[3]) * SubPx)
        bottom == Min(cell.y + cell.height, (bbox[2] + bbox[4]) * SubPx)
    IN  IF left < right /\ top < bottom
        THEN (right - left) * (bottom - top)
        ELSE 0

\* calculateIntersection(cell, bbox): bbox in pixels, result in (1/SubPx px)^2
calculateIntersection(cell, bbox) ==
    LET left   == Max(cell.x, bbox[1] * SubPx)
        top    == Max(cell.y, bbox[2] * SubPx)
        right  == Min(cell.x + cell.width, (bbox[1] + bbox[3]) * SubPx)
        bottom == Min(cell.y + cell.height, (bbox[2] + bbox[4]) * SubPx)
    IN  IF left < right /\ top < bottom
        THEN (right - left) * (bottom - top)
        ELSE 0

\* getCellsInBoundingBox: the cell ids of the clamped row/col range, in the
\* order the nested loops push them (row-major)
getCellsInBoundingBox(bbox, N, W, H) ==
    LET startCol == (bbox[1] * N) \div W
        endCol   == ((bbox[1] + bbox[3]) * N) \div W
        startRow == (bbox[2] * N) \div H
        endRow   == ((bbox[2] + bbox[4]) * N) \div H
        r0 == Max(0, startRow)
        r1 == Min(N - 1, endRow)
        c0 == Max(0, startCol)
        c1 == Min(N - 1, endCol)
        nr == IF r1 >= r0 THEN r1 - r0 + 1 ELSE 0
        nc == IF c1 >= c0 THEN c1 - c0 + 1 ELSE 0
    IN  [k \in 1..(nr * nc) |->
            (r0 + ((k - 1) \div nc)) * N + (c0 + ((k - 1) % nc))]

Range(f) == { f[k] : k \in DOMAIN f }

(***************************************************************************)
(* GridManager: detection mapping                                          *)
(***************************************************************************)
\* a plausible slip: the intersection taken as a share of the box, not of
\* the cell
adjustedConfidenceOfBox(cell, det) ==
    LET intersection == calculateIntersection(cell, det.bbox)
        area == det.bbox[3] * SubPx * det.bbox[4] * SubPx
    IN  IF intersection = 0 THEN Zero
        ELSE Rat(det.score * intersection, ScoreDen * area)

\* score * intersection / (cell.width * cell.height), exactly
adjustedConfidence(cell, det) ==
    LET intersection == calculateIntersection(cell, det.bbox)
        area == cell.width * cell.height
    IN  IF intersection = 0 THEN Zero
        ELSE Rat(det.score * intersection, ScoreDen * area)

\* a plausible slip: thresholds tested with >= instead of >
stateForConfidenceInclusive(state, c) ==
    IF RatLE(Hundredths(70), c) THEN "confident"
    ELSE IF RatLE(Hundredths(40), c) THEN "detected"
    ELSE IF RatLE(Hundredths(10), c) THEN "detecting"
    ELSE state

\* the if / else-if chain that sets cell.state from adjustedConfidence
stateForConfidence(state, c) ==
    IF RatGT(c, Hundredths(70)) THEN "confident"
    ELSE IF RatGT(c, Hundredths(40)) THEN "detected"
    ELSE IF RatGT(c, Hundredths(10)) THEN "detecting"
    ELSE state

\* the body of affectedCells.forEach for one cell
mapDetectionToCell(cell, det) ==
    LET adj == adjustedConfidence(cell, det)
    IN  IF RatGT(adj, cell.confidence)
        THEN [cell EXCEPT !.confidence = adj,
                          !.detection = det,
                          !.state = stateForConfidence(cell.state, adj)]
        ELSE cell

\* mapDetectionToGrid(detection)
mapDetectionToGrid(cs, det, N, W, H) ==
    LET affectedCells == Range(getCellsInBoundingBox(det.bbox, N, W, H))
    IN  [i \in DOMAIN cs |->
            IF i \in affectedCells THEN mapDetectionToCell(cs[i], det)
            ELSE cs[i]]

\* a plausible slip: the reset loop left out
resetCellSkipped(cell) == cell

\* a plausible slip: the reset steps a cell down one level, an 'active' cell
\* to 'inactive' and a cell in a detection state to 'active'
resetCellAging(cell) ==
    IF cell.state = "inactive" THEN cell
    ELSE [cell EXCEPT !.state = IF cell.state = "active" THEN "inactive"
                                ELSE "active",
                      !.confidence = Zero,
                      !.detection = NoDetection]

\* the body of the reset loop of updateDetections
resetCell(cell) ==
    IF cell.state # "inactive"
    THEN [cell EXCEPT !.state = "active", !.confidence = Zero,
                      !.detection = NoDetection]
    ELSE cell

RECURSIVE mapAll(_, _, _, _, _)
mapAll(cs, D, N, W, H) ==
    IF D = <<>> THEN cs
    ELSE mapAll(mapDetectionToGrid(cs, Head(D), N, W, H), Tail(D), N, W, H)

\* the cells after updateDetections(D)
updateDetectionsCells(cs, D, N, W, H) ==
    mapAll([i \in DOMAIN cs |-> resetCell(cs[i])], D, N, W, H)

\* a plausible slip: deactivateCell resets the state only
deactivateCellStateOnly(cs, id) ==
    IF id \in DOMAIN cs THEN [cs EXCEPT ![id].state = "inactive"] ELSE cs

\* activateCell(cellId) on the cell array
activateCell(cs, id) ==
    IF id \in DOMAIN cs THEN [cs EXCEPT ![id].state = "active"] ELSE cs

\* deactivateCell(cellId) on the cell array
deactivateCell(cs, id) ==
    IF id \in DOMAIN cs
    THEN [cs EXCEPT ![id].state = "inactive", ![id].confidence = Zero,
                    ![id].detection = NoDetection]
    ELSE cs

(***************************************************************************)
(* GridManager: operations                                                 *)
(***************************************************************************)
\* the cells for which Math.random() may come out below the activation
\* probability in simulateGridActivation
SimCells == {4}
\* the same in the specification of the idle simulation, where one
\* updateFrame activates up to four cells
IdleSimCells == {0, 1, 2, 4}

\* the canvas points (offsets from the canvas's top left corner) a click may
\* land on; none lies on a cell border of a grid of the model
ClickPoints == {<<50, 50>>}
\* the same in the specification of the idle simulation
IdleClickPoints == {<<150, 150>>, <<50, 50>>}

\* pending callbacks are kept as a bag: what is pending -> how many times
NoTimeouts == [i \in {} |-> 0]
NoStarts == [f \in {} |-> 0]
NoFrames == [f \in {} |-> 0]

RECURSIVE SumOver(_, _)
SumOver(f, S) ==
    IF S = {} THEN 0
    ELSE LET i == CHOOSE j \in S : TRUE IN f[i] + SumOver(f, S \ {i})

Pending(t) == SumOver(t, DOMAIN t)

\* the timeouts pending for cell id
TimeoutsOf(t, id) == IF id \in DOMAIN t THEN t[id] ELSE 0

\* one more setTimeout(deactivateCell(id)) for every id of S
Schedule(t, S) ==
    [i \in DOMAIN t \cup S |->
        (IF i \in DOMAIN t THEN t[i] ELSE 0) + (IF i \in S THEN 1 ELSE 0)]

\* the timeout of id has fired
Unschedule(t, id) ==
    [i \in { j \in DOMAIN t : j # id \/ t[j] > 1 } |->
        IF i = id THEN t[i] - 1 ELSE t[i]]

\* the fields the constructors of YOLOGridDemo, CameraHandler and
\* YOLOSimulation set, with the model load begun by YOLOSimulation.init
pipeDefaults ==
    /\ appIsRunning = FALSE
    /\ appDetections = <<>>
    /\ cameraIsActive = FALSE
    /\ cameraStatus = "none"
    /\ stream = FALSE
    /\ frameInterval = FALSE
    /\ frameCount = 0
    /\ yoloIsRunning = FALSE
    /\ isModelLoaded = FALSE
    /\ modelLoads = 1
    /\ inflight = NoFrames
    /\ starts = NoStarts

\* the fields the constructor of YOLOSimulation sets, but for onDetection
yoloFields ==
    /\ confidenceThreshold = 30
    /\ iouThreshold = 50
    /\ rawDetections = <<>>
    /\ frameData = [width |-> 640, height |-> 480,
                    canvasWidth |-> 640, canvasHeight |-> 480]
    /\ yoloDetections = <<>>

\* new YOLOSimulation({onDetection: this.handleDetection.bind(this), ...}),
\* as the app constructs it
yoloDefaults ==
    /\ yoloFields
    /\ onDetection = TRUE

\* new YOLOSimulation(): onDetection is null
yoloAlone ==
    /\ yoloFields
    /\ onDetection = FALSE

\* new GridManager({gridSize, overlayCanvas}): init() runs setupCanvas (which
\* reads the canvas size in resize) and then createGrid
Init ==
    /\ gridSize \in GridSizes
    /\ \E sz \in CanvasSizes : canvasWidth = sz[1] /\ canvasHeight = sz[2]
    /\ cells = createGrid(gridSize, canvasWidth, canvasHeight)
    /\ activeCells = {}
    /\ detections = <<>>
    /\ isRunning = FALSE
    /\ timeouts = NoTimeouts
    /\ debugMode = FALSE
    /\ yoloDefaults
    /\ pipeDefaults

\* setGridSize(newSize)
SetGridSize(newSize) ==
    /\ gridSize' = newSize
    /\ cells' = createGrid(newSize, canvasWidth, canvasHeight)
    /\ UNCHANGED <<canvasWidth, canvasHeight, activeCells, detections,
                   isRunning, timeouts,
                   debugMode>>
    /\ UNCHANGED yoloVars
    /\ UNCHANGED pipeVars

\* resize(): the canvas now measures W x H
Resize(W, H) ==
    /\ canvasWidth' = W
    /\ canvasHeight' = H
    /\ cells' = calculateCellPositions(cells, gridSize, W, H)
    /\ UNCHANGED <<gridSize, activeCells, detections, isRunning, timeouts,
                   debugMode>>
    /\ UNCHANGED yoloVars
    /\ UNCHANGED pipeVars

\* start()
Start ==
    /\ isRunning' = TRUE
    /\ UNCHANGED <<gridSize, canvasWidth, canvasHeight, cells, activeCells,
                   detections, timeouts, debugMode>>
    /\ UNCHANGED yoloVars
    /\ UNCHANGED pipeVars

\* stop()
Stop ==
    /\ isRunning' = FALSE
    /\ UNCHANGED <<gridSize, canvasWidth, canvasHeight, cells, activeCells,
                   detections, timeouts, debugMode>>
    /\ UNCHANGED yoloVars
    /\ UNCHANGED pipeVars

\* updateFrame(frameData) -> simulateGridActivation: S is the set of cells
\* for which Math.random() < 0.1 came out true
UpdateFrame(S) ==
    /\ isRunning
    /\ LET activated == { i \in S \cap DOMAIN cells :
                            cells[i].state = "inactive" }
       IN  /\ \A i \in activated : TimeoutsOf(timeouts, i) < MaxTimeouts
           /\ cells' = [i \in DOMAIN cells |->
                           IF i \in activated
                           THEN activateCell(cells, i)[i] ELSE cells[i]]
           /\ activeCells' = activeCells \cup activated
           /\ timeouts' = Schedule(timeouts, activated)
    /\ UNCHANGED <<gridSize, canvasWidth, canvasHeight, detections, isRunning,
                   debugMode>>
    /\ UNCHANGED yoloVars
    /\ UNCHANGED pipeVars

\* a timeout scheduled by simulateGridActivation fires: deactivateCell(id)
TimeoutFires(id) ==
    /\ id \in DOMAIN timeouts
    /\ timeouts' = Unschedule(timeouts, id)
    /\ cells' = deactivateCell(cells, id)
    /\ activeCells' = IF id \in DOMAIN cells THEN activeCells \ {id}
                      ELSE activeCells
    /\ UNCHANGED <<gridSize, canvasWidth, canvasHeight, detections, isRunning,
                   debugMode>>
    /\ UNCHANGED yoloVars
    /\ UNCHANGED pipeVars

\* updateDetections(D)
UpdateDetections(D) ==
    /\ detections' = D
    /\ UNCHANGED <<gridSize, canvasWidth, canvasHeight, activeCells,
                   isRunning, timeouts,
                   debugMode>>
    /\ UNCHANGED yoloVars
    /\ UNCHANGED pipeVars
    /\ cells' = updateDetectionsCells(cells, D, gridSize, canvasWidth,
                                      canvasHeight)

\* clearDetections(): deactivateCell on every cell
ClearDetections ==
    /\ detections' = <<>>
    /\ cells' = [i \in DOMAIN cells |-> deactivateCell(cells, i)[i]]
    /\ activeCells' = activeCells \ DOMAIN cells
    /\ UNCHANGED <<gridSize, canvasWidth, canvasHeight, isRunning, timeouts,
                   debugMode>>
    /\ UNCHANGED yoloVars
    /\ UNCHANGED pipeVars

\* toggleDebugMode()
ToggleDebugMode ==
    /\ debugMode' = ~debugMode
    /\ UNCHANGED <<gridSize, canvasWidth, canvasHeight, cells, activeCells,
                   detections, isRunning, timeouts>>
    /\ UNCHANGED yoloVars
    /\ UNCHANGED pipeVars

\* the id handleClick computes for the canvas point (x, y):
\* floor(y / canvasHeight * gridSize) * gridSize
\*    + floor(x / canvasWidth * gridSize)
clickedCell(x, y, N, W, H) == ((y * N) \div H) * N + ((x * N) \div W)

\* handleClick(event), the canvas's click listener, for a click on the
\* canvas point (x, y): nothing unless debugMode; an inactive cell is
\* activated (no timeout is set), any other cell is deactivated
HandleClick(x, y) ==
    /\ debugMode
    /\ LET cellId == clickedCell(x, y, gridSize, canvasWidth, canvasHeight)
       IN  IF cellId \in DOMAIN cells
           THEN IF cells[cellId].state = "inactive"
                THEN /\ cells' = activateCell(cells, cellId)
                     /\ activeCells' = activeCells \cup {cellId}
                ELSE /\ cells' = deactivateCell(cells, cellId)
                     /\ activeCells' = activeCells \ {cellId}
           ELSE UNCHANGED <<cells, activeCells>>
    /\ UNCHANGED <<gridSize, canvasWidth, canvasHeight, detections, isRunning,
                   timeouts, debugMode>>
    /\ UNCHANGED yoloVars
    /\ UNCHANGED pipeVars

Next ==
    \/ \E n \in GridSizes : SetGridSize(n)
    \/ \E sz \in CanvasSizes : Resize(sz[1], sz[2])
    \/ Start
    \/ Stop
    \/ \E S \in SUBSET SimCells : UpdateFrame(S)
    \/ \E id \in DOMAIN timeouts : TimeoutFires(id)
    \/ \E D \in DetLists : UpdateDetections(D)
    \/ ClearDetections
    \/ ToggleDebugMode
    \/ \E pt \in ClickPoints : HandleClick(pt[1], pt[2])

Spec == Init /\ [][Next]_vars

\* Spec with every timer eventually firing: a timeout that is pending is
\* run by the event loop
SpecLive == Spec /\ \A id \in SimCells : WF_vars(TimeoutFires(id))

\* the grid at the app's sizes: construction, then any sequence of
\* setGridSize, resize, start, stop, idle activation and clearDetections
InitGeom ==
    /\ gridSize \in AppGridSizes
    /\ \E sz \in AppCanvasSizes : canvasWidth = sz[1] /\ canvasHeight = sz[2]
    /\ cells = createGrid(gridSize, canvasWidth, canvasHeight)
    /\ activeCells = {}
    /\ detections = <<>>
    /\ isRunning = FALSE
    /\ timeouts = NoTimeouts
    /\ debugMode = FALSE
    /\ yoloDefaults
    /\ pipeDefaults

NextGeom ==
    \/ \E n \in AppGridSizes : SetGridSize(n)
    \/ \E sz \in AppCanvasSizes : Resize(sz[1], sz[2])
    \/ Start
    \/ Stop
    \/ \E S \in SUBSET SimCells : UpdateFrame(S)
    \/ \E id \in DOMAIN timeouts : TimeoutFires(id)
    \/ ClearDetections
    \/ ToggleDebugMode
    \/ \E pt \in ClickPoints : HandleClick(pt[1], pt[2])

SpecGeom == InitGeom /\ [][NextGeom]_vars

(***************************************************************************)
(* YOLOSimulation: the detection post-processor                            *)
(***************************************************************************)
\* a raw detection as the model returns it: bbox <<x, y, width, height>> in
\* the pixel space of the frame canvas, score in hundredths
Raw(class, score, bbox) == [class |-> class, score |-> score, bbox |-> bbox]

\* three boxes of which the first and the second, and the second and the
\* third, overlap beyond 0.5, and the first and the third do not
OverlapPool ==
    { Raw("person", 90, <<0, 0, 100, 100>>),
      Raw("car",    80, <<0, 20, 100, 100>>),
      Raw("person", 80, <<0, 40, 100, 100>>) }

RawPool ==
    { Raw("person", 90, <<0, 0, 100, 100>>),
      Raw("car",    80, <<0, 20, 100, 100>>),
      Raw("person", 80, <<0, 40, 100, 100>>),
      Raw("person", 30, <<0, 0, 100, 50>>),
      Raw("dog",    20, <<200, 200, 50, 50>>),
      Raw("cat",    60, <<150, 10, 0, 40>>) }

\* two boxes that overlap in part and a box of width 0 apart from both
DegeneratePool ==
    { Raw("person", 90, <<0, 0, 100, 100>>),
      Raw("car",    80, <<0, 20, 100, 100>>),
      Raw("cat",    60, <<150, 10, 0, 40>>) }

\* the results model.detect may resolve with: every list of up to
\* MaxRaw - 1 detections, and every list of MaxRaw detections of
\* OverlapPool or of DegeneratePool
RawLists ==
    SeqsUpTo(RawPool, MaxRaw - 1)
    \cup [1..MaxRaw -> OverlapPool] \cup [1..MaxRaw -> DegeneratePool]

\* frames: the video size, and the size of the frame canvas the model saw
Frames ==
    { [width |-> 640, height |-> 480, canvasWidth |-> 640, canvasHeight |-> 480],
      [width |-> 640, height |-> 480, canvasWidth |-> 320, canvasHeight |-> 240] }

\* the frame of the specification of the post-processor: the frame canvas
\* is half the video in each direction
PostFrames ==
    { [width |-> 640, height |-> 480, canvasWidth |-> 320, canvasHeight |-> 240] }

\* the values handed to setConfidenceThreshold and setIoUThreshold, in
\* hundredths: within [0,1], above 1 and below 0
ThresholdInputs == {50, 150, -100}

\* the scenarios of loadDemoScenario as (confidenceThreshold, iouThreshold)
Scenarios ==
    [beginner |-> <<50, 50>>, intermediate |-> <<40, 40>>,
     advanced |-> <<30, 30>>, performance |-> <<60, 60>>]

\* the names handed to loadDemoScenario; "expert" is no scenario
ScenarioNames == {"beginner", "advanced", "expert"}

\* the strings Math.random().toString(36).substring(7) may yield
RandomIds == {"r1", "r2"}

\* the draws for a list of n detections: the same string for every
\* detection, or another one for the first
RandomDraws(n) ==
    { rnd \in [1..n -> RandomIds] : \A k \in 2..n : rnd[k] = "r1" }

\* formatDetection(detection, frameData); rnd is the Math.random() draw.
\* frameData.width is a multiple of frameData.canvas.width in every frame of
\* Frames (and so for the heights), so the scaled bbox is an integer and the
\* division is exact; the centre, which halves a length, is kept as fractions
formatDetection(det, frame, rnd) ==
    [class |-> det.class,
     score |-> det.score,
     bbox  |-> << (det.bbox[1] * frame.width) \div frame.canvasWidth,
                  (det.bbox[2] * frame.height) \div frame.canvasHeight,
                  (det.bbox[3] * frame.width) \div frame.canvasWidth,
                  (det.bbox[4] * frame.height) \div frame.canvasHeight >>,
     center |-> << Rat((2 * det.bbox[1] + det.bbox[3]) * frame.width,
                       2 * frame.canvasWidth),
                   Rat((2 * det.bbox[2] + det.bbox[4]) * frame.height,
                       2 * frame.canvasHeight) >>,
     id |-> rnd]

\* a plausible slip: the union taken as the sum of the two areas
calculateIoUNoOverlapTerm(bbox1, bbox2) ==
    LET intersectX1 == Max(bbox1[1], bbox2[1])
        intersectY1 == Max(bbox1[2], bbox2[2])
        intersectX2 == Min(bbox1[1] + bbox1[3], bbox2[1] + bbox2[3])
        intersectY2 == Min(bbox1[2] + bbox1[4], bbox2[2] + bbox2[4])
        intersectArea == Max(0, intersectX2 - intersectX1)
                         * Max(0, intersectY2 - intersectY1)
        unionArea == bbox1[3] * bbox1[4] + bbox2[3] * bbox2[4]
    IN  IF unionArea > 0 THEN Rat(intersectArea, unionArea) ELSE Zero

\* calculateIoU(bbox1, bbox2), as an exact fraction
calculateIoU(bbox1, bbox2) ==
    LET intersectX1 == Max(bbox1[1], bbox2[1])
        intersectY1 == Max(bbox1[2], bbox2[2])
        intersectX2 == Min(bbox1[1] + bbox1[3], bbox2[1] + bbox2[3])
        intersectY2 == Min(bbox1[2] + bbox1[4], bbox2[2] + bbox2[4])
        intersectArea == Max(0, intersectX2 - intersectX1)
                         * Max(0, intersectY2 - intersectY1)
        area1 == bbox1[3] * bbox1[4]
        area2 == bbox2[3] * bbox2[4]
        unionArea == area1 + area2 - intersectArea
    IN  IF unionArea > 0 THEN Rat(intersectArea, unionArea) ELSE Zero

\* a plausible slip: iou >= this.iouThreshold
suppressesInclusive(bbox1, bbox2, iouT) ==
    RatLE(Hundredths(iouT), calculateIoU(bbox1, bbox2))

\* the test of the inner loop of applyNMS: iou > this.iouThreshold
suppresses(bbox1, bbox2, iouT) ==
    RatGT(calculateIoU(bbox1, bbox2), Hundredths(iouT))

\* the inner loop of applyNMS for a selected i: the suppressed set after j
\* has run from i + 1 to the end of the list
RECURSIVE nmsInner(_, _, _, _, _)
nmsInner(dets, i, j, suppressed, iouT) ==
    IF j > Len(dets) THEN suppressed
    ELSE IF j \in suppressed THEN nmsInner(dets, i, j + 1, suppressed, iouT)
    ELSE IF suppresses(dets[i].bbox, dets[j].bbox, iouT)
         THEN nmsInner(dets, i, j + 1, suppressed \cup {j}, iouT)
         ELSE nmsInner(dets, i, j + 1, suppressed, iouT)

\* a plausible slip: a suppressed detection is not skipped by the outer loop,
\* so it is selected and suppresses in its turn
RECURSIVE nmsOuterNoSkip(_, _, _, _, _)
nmsOuterNoSkip(dets, i, selected, suppressed, iouT) ==
    IF i > Len(dets) THEN selected
    ELSE nmsOuterNoSkip(dets, i + 1,
                        IF i \in suppressed THEN selected
                        ELSE Append(selected, i),
                        nmsInner(dets, i, i + 1, suppressed, iouT), iouT)

\* the outer loop of applyNMS: the indices pushed to `selected`, in order
RECURSIVE nmsOuter(_, _, _, _, _)
nmsOuter(dets, i, selected, suppressed, iouT) ==
    IF i > Len(dets) THEN selected
    ELSE IF i \in suppressed
         THEN nmsOuter(dets, i + 1, selected, suppressed, iouT)
         ELSE nmsOuter(dets, i + 1, Append(selected, i),
                       nmsInner(dets, i, i + 1, suppressed, iouT), iouT)

\* applyNMS(detections): the selected detections
applyNMS(dets, iouT) ==
    LET selected == nmsOuter(dets, 1, <<>>, {}, iouT)
    IN  [k \in 1..Len(selected) |-> dets[selected[k]]]

\* a plausible slip: score > this.confidenceThreshold
passesFilterStrict(det, confT) == det.score > confT

\* the predicate of .filter(): score >= this.confidenceThreshold
passesFilter(det, confT) == det.score >= confT

RECURSIVE filterDetections(_, _)
filterDetections(dets, confT) ==
    IF dets = <<>> THEN <<>>
    ELSE IF passesFilter(Head(dets), confT)
         THEN <<Head(dets)>> \o filterDetections(Tail(dets), confT)
         ELSE filterDetections(Tail(dets), confT)

\* d put into a list already sorted by descending score, behind every
\* element whose score is not lower (a stable sort keeps input order on ties)
RECURSIVE insertByScore(_, _)
insertByScore(sorted, d) ==
    IF sorted = <<>> THEN <<d>>
    ELSE IF Head(sorted).score >= d.score
         THEN <<Head(sorted)>> \o insertByScore(Tail(sorted), d)
         ELSE <<d>> \o sorted

\* .sort((a, b) => b.score - a.score): stable, descending score
RECURSIVE sortByScore(_)
sortByScore(dets) ==
    IF dets = <<>> THEN <<>>
    ELSE insertByScore(sortByScore(SubSeq(dets, 1, Len(dets) - 1)),
                       dets[Len(dets)])

\* the list handed to applyNMS: filter, then format, then sort
processedDetections(raw, frame, rnd, confT) ==
    LET kept == filterDetections(raw, confT)
    IN  sortByScore([k \in 1..Len(kept) |->
                        formatDetection(kept[k], frame, rnd[k])])

\* postprocessDetections(rawDetections, frameData)
postprocessDetections(raw, frame, rnd, confT, iouT) ==
    applyNMS(processedDetections(raw, frame, rnd, confT), iouT)

gridDefaults ==
    /\ gridSize = 3
    /\ canvasWidth = 300
    /\ canvasHeight = 300
    /\ cells = createGrid(3, 300, 300)
    /\ activeCells = {}
    /\ detections = <<>>
    /\ isRunning = FALSE
    /\ timeouts = NoTimeouts
    /\ debugMode = FALSE

(***************************************************************************)
(* The grid driven with boxes inside, across and outside the canvas        *)
(***************************************************************************)
\* boxes inside the canvas, across its edges, wholly outside it, covering
\* it, ending on its far corner, of zero size and of negative width
BoxPool ==
    { Det("in",    "person", 90, <<50, 50, 80, 80>>),
      Det("tl",    "person", 90, <<-50, -30, 120, 100>>),
      Det("br",    "person", 90, <<350, 150, 200, 200>>),
      Det("right", "person", 90, <<500, 10, 50, 50>>),
      Det("left",  "person", 90, <<-200, -200, 100, 100>>),
      Det("all",   "person", 90, <<-10, -10, 1000, 1000>>),
      Det("edge",  "person", 90, <<210, 105, 210, 105>>),
      Det("zero",  "person", 90, <<100, 100, 0, 0>>),
      Det("neg",   "person", 90, <<100, 100, -50, 40>>) }

BoxLists == SeqsUpTo(BoxPool, 1)

\* grid sizes, and canvas sizes whose SubPx-fold is a multiple of each
BoxGridSizes == {3, 4, 7}
BoxCanvasSizes == {<<420, 210>>, <<210, 420>>}

InitBox ==
    /\ gridSize \in BoxGridSizes
    /\ \E sz \in BoxCanvasSizes : canvasWidth = sz[1] /\ canvasHeight = sz[2]
    /\ cells = createGrid(gridSize, canvasWidth, canvasHeight)
    /\ activeCells = {}
    /\ detections = <<>>
    /\ isRunning = FALSE
    /\ timeouts = NoTimeouts
    /\ debugMode = FALSE
    /\ yoloDefaults
    /\ pipeDefaults

NextBox ==
    \/ \E n \in BoxGridSizes : SetGridSize(n)
    \/ \E sz \in BoxCanvasSizes : Resize(sz[1], sz[2])
    \/ \E D \in BoxLists : UpdateDetections(D)
    \/ ClearDetections

SpecBox == InitBox /\ [][NextBox]_vars

(***************************************************************************)
(* IEEE 754 double arithmetic                                              *)
(*                                                                         *)
(* JavaScript numbers are binary64.  The operators below compute +, -, *,  *)
(* / and Math.floor on non-negative finite doubles bit for bit, rounding   *)
(* to nearest, ties to even.  A double is [m, e], standing for m * 2^e     *)
(* with 2^52 <= m < 2^53, or F64Zero.  The mantissa and the intermediate   *)
(* products and quotients exceed the integers TLC computes with, so they   *)
(* are kept as little-endian sequences of limbs below LimbBase with no     *)
(* leading zero limb; <<>> is zero.                                        *)
(***************************************************************************)
\* F(v) with v computed once, however often F uses it
Bind(F(_), v) == CHOOSE y \in { F(x) : x \in {v} } : TRUE

LimbBits == 15
LimbBase == 32768
MantBits == 53

RECURSIVE Pow2(_)
Pow2(n) == IF n = 0 THEN 1 ELSE 2 * Pow2(n - 1)

RECURSIVE BigNorm(_)
BigNorm(a) ==
    IF a = <<>> THEN <<>>
    ELSE IF a[Len(a)] = 0 THEN BigNorm(SubSeq(a, 1, Len(a) - 1))
    ELSE a

RECURSIVE BigOfInt(_)
BigOfInt(n) ==
    IF n = 0 THEN <<>> ELSE <<n % LimbBase>> \o BigOfInt(n \div LimbBase)

RECURSIVE BigToInt(_)
BigToInt(a) == IF a = <<>> THEN 0 ELSE Head(a) + LimbBase * BigToInt(Tail(a))

RECURSIVE BigAddC(_, _, _)
BigAddC(a, b, c) ==
    IF a = <<>> /\ b = <<>> THEN (IF c = 0 THEN <<>> ELSE <<c>>)
    ELSE LET x == IF a = <<>> THEN 0 ELSE Head(a)
             y == IF b = <<>> THEN 0 ELSE Head(b)
             s == x + y + c
         IN  <<s % LimbBase>>
               \o BigAddC(IF a = <<>> THEN <<>> ELSE Tail(a),
                          IF b = <<>> THEN <<>> ELSE Tail(b),
                          s \div LimbBase)

BigAdd(a, b) == BigAddC(a, b, 0)

RECURSIVE BigSubC(_, _, _)
BigSubC(a, b, c) ==
    IF a = <<>> THEN <<>>
    ELSE LET y == IF b = <<>> THEN 0 ELSE Head(b)
             s == Head(a) - y - c
         IN  <<IF s < 0 THEN s + LimbBase ELSE s>>
               \o BigSubC(Tail(a), IF b = <<>> THEN <<>> ELSE Tail(b),
                          IF s < 0 THEN 1 ELSE 0)

\* a - b for a >= b
BigSub(a, b) == BigNorm(BigSubC(a, b, 0))

RECURSIVE BigCmpFrom(_, _, _)
BigCmpFrom(a, b, i) ==
    IF i = 0 THEN 0
    ELSE IF a[i] < b[i] THEN -1
    ELSE IF a[i] > b[i] THEN 1
    ELSE BigCmpFrom(a, b, i - 1)

\* -1, 0 or 1 as a is below, equal to or above b
BigCmp(a, b) ==
    IF Len(a) < Len(b) THEN -1
    ELSE IF Len(a) > Len(b) THEN 1
    ELSE BigCmpFrom(a, b, Len(a))

\* a * k + c for 0 <= k, c < LimbBase
RECURSIVE BigMulSmall(_, _, _)
BigMulSmall(a, k, c) ==
    IF a = <<>> THEN (IF c = 0 THEN <<>> ELSE <<c>>)
    ELSE LET s == Head(a) * k + c
         IN  <<s % LimbBase>> \o BigMulSmall(Tail(a), k, s \div LimbBase)

RECURSIVE BigMul(_, _)
BigMul(a, b) ==
    IF a = <<>> \/ b = <<>> THEN <<>>
    ELSE LET rest == BigMul(a, Tail(b))
         IN  BigNorm(BigAdd(BigMulSmall(a, Head(b), 0),
                            IF rest = <<>> THEN <<>> ELSE <<0>> \o rest))

RECURSIVE BigDivSmallFrom(_, _, _, _)
BigDivSmallFrom(a, k, i, r) ==
    IF i = 0 THEN <<>>
    ELSE LET t == r * LimbBase + a[i]
         IN  BigDivSmallFrom(a, k, i - 1, t % k) \o <<t \div k>>

\* floor(a / k) for 0 < k <= LimbBase
BigDivSmall(a, k) == BigNorm(BigDivSmallFrom(a, k, Len(a), 0))

\* a * 2^n
BigShl(a, n) ==
    IF a = <<>> THEN <<>>
    ELSE [i \in 1..(n \div LimbBits) |-> 0]
           \o BigNorm(BigMulSmall(a, Pow2(n % LimbBits), 0))

\* floor(a / 2^n)
BigShr(a, n) ==
    IF Len(a) <= n \div LimbBits THEN <<>>
    ELSE BigDivSmall(SubSeq(a, (n \div LimbBits) + 1, Len(a)),
                     Pow2(n % LimbBits))

RECURSIVE BitLenInt(_)
BitLenInt(n) == IF n = 0 THEN 0 ELSE 1 + BitLenInt(n \div 2)

\* the number of bits of a
BigBitLen(a) ==
    IF a = <<>> THEN 0 ELSE LimbBits * (Len(a) - 1) + BitLenInt(a[Len(a)])

BigIsOdd(a) == a # <<>> /\ a[1] % 2 = 1

\* n steps of binary long division of r by d, for r < 2 * d: the n quotient
\* bits as a number, and the remainder carried to the next step
RECURSIVE BigDivSteps(_, _, _)
BigDivSteps(r, d, n) ==
    IF n = 1
    THEN LET ge == BigCmp(r, d) >= 0
             r1 == IF ge THEN BigSub(r, d) ELSE r
         IN  [q |-> IF ge THEN <<1>> ELSE <<>>, r |-> BigAdd(r1, r1)]
    ELSE LET n1 == n \div 2
         IN  Bind(LAMBDA hi :
                Bind(LAMBDA lo :
                        [q |-> BigAdd(BigShl(hi.q, n - n1), lo.q), r |-> lo.r],
                     BigDivSteps(hi.r, d, n - n1)),
                BigDivSteps(r, d, n1))

F64Zero == [m |-> <<>>, e |-> 0]

\* the double nearest to M * 2^e, or to a value just above it when sticky
\* (a discarded remainder); ties go to the even mantissa
F64RoundBig(M, e, sticky) ==
    LET L == BigBitLen(M)
    IN  IF M = <<>> THEN F64Zero
        ELSE IF L <= MantBits
        THEN [m |-> BigShl(M, MantBits - L), e |-> e - (MantBits - L)]
        ELSE LET s    == L - MantBits
                 half == BigShl(<<1>>, s - 1)
                 Up(q) ==
                     LET c == BigCmp(BigSub(M, BigShl(q, s)), half)
                     IN  c > 0 \/ (c = 0 /\ (sticky \/ BigIsOdd(q)))
             IN  Bind(LAMBDA q1 :
                        IF BigBitLen(q1) > MantBits
                        THEN [m |-> BigShr(q1, 1), e |-> e + s + 1]
                        ELSE [m |-> q1, e |-> e + s],
                      Bind(LAMBDA q : IF Up(q) THEN BigAdd(q, <<1>>) ELSE q,
                           BigShr(M, s)))

F64Round(M, e, sticky) == Bind(LAMBDA B : F64RoundBig(B, e, sticky), M)

\* the double of an integer 0 <= n < 2^31 (exact)
F64OfInt(n) == F64Round(BigOfInt(n), 0, FALSE)

\* a * b
F64Mul(a, b) ==
    Bind(LAMBDA p :
            IF p[1].m = <<>> \/ p[2].m = <<>> THEN F64Zero
            ELSE F64Round(BigMul(p[1].m, p[2].m), p[1].e + p[2].e, FALSE),
         <<a, b>>)

\* a / b for b > 0: 56 quotient bits and whether a remainder is left
F64Div(a, b) ==
    Bind(LAMBDA p :
            IF p[1].m = <<>> THEN F64Zero
            ELSE Bind(LAMBDA d :
                         F64Round(d.q, p[1].e - p[2].e - (MantBits + 2),
                                  d.r # <<>>),
                      BigDivSteps(p[1].m, p[2].m, MantBits + 3)),
         <<a, b>>)

\* hi + lo for hi.e >= lo.e; an addend below 2^-60 of the other is below
\* half its last place
F64AddOrdered(hi, lo) ==
    IF hi.e - lo.e > 60 THEN hi
    ELSE F64Round(BigAdd(BigShl(hi.m, hi.e - lo.e), lo.m), lo.e, FALSE)

\* a + b
F64Add(a, b) ==
    Bind(LAMBDA p :
            IF p[1].m = <<>> THEN p[2]
            ELSE IF p[2].m = <<>> THEN p[1]
            ELSE IF p[1].e >= p[2].e THEN F64AddOrdered(p[1], p[2])
            ELSE F64AddOrdered(p[2], p[1]),
         <<a, b>>)

\* -1, 0 or 1 as a is below, equal to or above b
F64Cmp(a, b) ==
    Bind(LAMBDA p :
            IF p[1].m = <<>> THEN (IF p[2].m = <<>> THEN 0 ELSE -1)
            ELSE IF p[2].m = <<>> THEN 1
            ELSE IF p[1].e # p[2].e THEN (IF p[1].e < p[2].e THEN -1 ELSE 1)
            ELSE BigCmp(p[1].m, p[2].m),
         <<a, b>>)

\* a - b for a >= b
F64Sub(a, b) ==
    Bind(LAMBDA p :
            IF p[2].m = <<>> THEN p[1]
            ELSE IF p[1].e - p[2].e > 60 THEN p[1]
            ELSE F64Round(BigSub(BigShl(p[1].m, p[1].e - p[2].e), p[2].m),
                          p[2].e, FALSE),
         <<a, b>>)

F64LT(a, b) == F64Cmp(a, b) < 0
F64GT(a, b) == F64Cmp(a, b) > 0
F64Max(a, b) == Bind(LAMBDA p : IF F64LT(p[1], p[2]) THEN p[2] ELSE p[1], <<a, b>>)
F64Min(a, b) == Bind(LAMBDA p : IF F64LT(p[2], p[1]) THEN p[2] ELSE p[1], <<a, b>>)

\* Math.floor(a) as an integer, for 0 <= a < 2^31
F64Floor(a) ==
    Bind(LAMBDA v :
            IF v.m = <<>> THEN 0
            ELSE IF v.e >= 0 THEN BigToInt(BigShl(v.m, v.e))
            ELSE BigToInt(BigShr(v.m, 0 - v.e)),
         a)

F64One == F64OfInt(1)

\* the double of the literal h/100 (0.7 is F64Hundredths(70))
F64Hundredths(h) == F64Div(F64OfInt(h), F64OfInt(ScoreDen))

(***************************************************************************)
(* GridManager in double arithmetic                                        *)
(*                                                                         *)
(* The functions of the geometry and of the detection mapping again, with  *)
(* every arithmetic operation of the source done in doubles, in the order  *)
(* the source does them.  A cell's x, y, width, height and confidence are  *)
(* doubles; a detection keeps its whole-pixel box and its score in         *)
(* hundredths, which are converted where the source reads them.  Boxes     *)
(* have non-negative coordinates and sizes.                                *)
(***************************************************************************)
\* the cell createGrid pushes for index i
NewCellF64(i, N) ==
    [id |-> i, row |-> i \div N, col |-> i % N,
     x |-> F64Zero, y |-> F64Zero, width |-> F64Zero, height |-> F64Zero,
     state |-> "inactive", confidence |-> F64Zero, detection |-> NoDetection]

\* calculateCellPositions
calculateCellPositionsF64(cs, N, W, H) ==
    LET cellWidth  == F64Div(F64OfInt(W), F64OfInt(N))
        cellHeight == F64Div(F64OfInt(H), F64OfInt(N))
    IN  Bind(LAMBDA c :
                [i \in DOMAIN cs |->
                    [cs[i] EXCEPT
                        !.x = F64Mul(F64OfInt(cs[i].col), c.cellWidth),
                        !.y = F64Mul(F64OfInt(cs[i].row), c.cellHeight),
                        !.width = c.cellWidth,
                        !.height = c.cellHeight]],
             [cellWidth |-> cellWidth, cellHeight |-> cellHeight])

\* createGrid
createGridF64(N, W, H) ==
    calculateCellPositionsF64([i \in CellIds(N) |-> NewCellF64(i, N)], N, W, H)

\* calculateIntersection(cell, bbox)
calculateIntersectionF64(cell, bbox) ==
    LET left   == F64Max(cell.x, F64OfInt(bbox[1]))
        top    == F64Max(cell.y, F64OfInt(bbox[2]))
        right  == F64Min(F64Add(cell.x, cell.width),
                         F64Add(F64OfInt(bbox[1]), F64OfInt(bbox[3])))
        bottom == F64Min(F64Add(cell.y, cell.height),
                         F64Add(F64OfInt(bbox[2]), F64OfInt(bbox[4])))
    IN  Bind(LAMBDA r :
                IF F64LT(r.left, r.right) /\ F64LT(r.top, r.bottom)
                THEN F64Mul(F64Sub(r.right, r.left), F64Sub(r.bottom, r.top))
                ELSE F64Zero,
             [left |-> left, top |-> top, right |-> right, bottom |-> bottom])

\* getCellsInBoundingBox: Math.floor((x / canvasWidth) * gridSize) and its
\* three siblings, then the clamped nested loops
getCellsInBoundingBoxF64(bbox, N, W, H) ==
    LET Cell(v, L) ==
            F64Floor(F64Mul(F64Div(v, F64OfInt(L)), F64OfInt(N)))
        startCol == Cell(F64OfInt(bbox[1]), W)
        endCol   == Cell(F64Add(F64OfInt(bbox[1]), F64OfInt(bbox[3])), W)
        startRow == Cell(F64OfInt(bbox[2]), H)
        endRow   == Cell(F64Add(F64OfInt(bbox[2]), F64OfInt(bbox[4])), H)
        Loops(r0, r1, c0, c1) ==
            LET nr == IF r1 >= r0 THEN r1 - r0 + 1 ELSE 0
                nc == IF c1 >= c0 THEN c1 - c0 + 1 ELSE 0
            IN  [k \in 1..(nr * nc) |->
                    (r0 + ((k - 1) \div nc)) * N + (c0 + ((k - 1) % nc))]
    IN  Bind(LAMBDA b : Loops(Max(0, b.startRow), Min(N - 1, b.endRow),
                              Max(0, b.startCol), Min(N - 1, b.endCol)),
             [startRow |-> startRow, endRow |-> endRow,
              startCol |-> startCol, endCol |-> endCol])

\* score * (intersection / (cell.width * cell.height))
adjustedConfidenceF64(cell, det) ==
    LET intersection == calculateIntersectionF64(cell, det.bbox)
        intersectionRatio ==
            F64Div(intersection, F64Mul(cell.width, cell.height))
    IN  F64Mul(F64Hundredths(det.score), intersectionRatio)

\* the if / else-if chain that sets cell.state from adjustedConfidence
stateForConfidenceF64(state, c) ==
    IF F64GT(c, F64Hundredths(70)) THEN "confident"
    ELSE IF F64GT(c, F64Hundredths(40)) THEN "detected"
    ELSE IF F64GT(c, F64Hundredths(10)) THEN "detecting"
    ELSE state

\* the body of affectedCells.forEach for one cell
mapDetectionToCellF64(cell, det) ==
    Bind(LAMBDA adj :
            IF F64GT(adj, cell.confidence)
            THEN [cell EXCEPT !.confidence = adj,
                              !.detection = det,
                              !.state = stateForConfidenceF64(cell.state, adj)]
            ELSE cell,
         adjustedConfidenceF64(cell, det))

\* mapDetectionToGrid(detection)
mapDetectionToGridF64(cs, det, N, W, H) ==
    Bind(LAMBDA affectedCells :
            [i \in DOMAIN cs |->
                IF i \in affectedCells THEN mapDetectionToCellF64(cs[i], det)
                ELSE cs[i]],
         Range(getCellsInBoundingBoxF64(det.bbox, N, W, H)))

\* the body of the reset loop of updateDetections
resetCellF64(cell) ==
    IF cell.state # "inactive"
    THEN [cell EXCEPT !.state = "active", !.confidence = F64Zero,
                      !.detection = NoDetection]
    ELSE cell

RECURSIVE mapAllF64(_, _, _, _, _)
mapAllF64(cs, D, N, W, H) ==
    IF D = <<>> THEN cs
    ELSE mapAllF64(mapDetectionToGridF64(cs, Head(D), N, W, H),
                   Tail(D), N, W, H)

\* the cells after updateDetections(D)
updateDetectionsCellsF64(cs, D, N, W, H) ==
    mapAllF64([i \in DOMAIN cs |-> resetCellF64(cs[i])], D, N, W, H)

\* deactivateCell(cellId) on one cell
deactivateCellF64(cell) ==
    [cell EXCEPT !.state = "inactive", !.confidence = F64Zero,
                 !.detection = NoDetection]

\* detections with whole-pixel boxes: a small one, one that covers the
\* 800x600 canvas, one that covers the 300x300 canvas, one that covers a
\* quarter of the 800x600 canvas, and one that starts on the right edge of
\* the 800 pixel wide canvas
F64Pool ==
    { Det("in",    "person",  90, <<50, 50, 80, 80>>),
      Det("all",   "person", 100, <<0, 0, 800, 600>>),
      Det("sq",    "car",    100, <<0, 0, 300, 300>>),
      Det("half",  "car",    100, <<0, 0, 400, 300>>),
      Det("right", "car",     90, <<800, 100, 50, 50>>) }

F64Lists == SeqsUpTo(F64Pool, 1)

F64GridSizes == {3, 7}
F64CanvasSizes == {<<300, 300>>, <<800, 600>>}

SetGridSizeF64(newSize) ==
    /\ gridSize' = newSize
    /\ cells' = createGridF64(newSize, canvasWidth, canvasHeight)
    /\ UNCHANGED <<canvasWidth, canvasHeight, activeCells, detections,
                   isRunning, timeouts,
                   debugMode>>
    /\ UNCHANGED yoloVars
    /\ UNCHANGED pipeVars

ResizeF64(W, H) ==
    /\ canvasWidth' = W
    /\ canvasHeight' = H
    /\ cells' = calculateCellPositionsF64(cells, gridSize, W, H)
    /\ UNCHANGED <<gridSize, activeCells, detections, isRunning, timeouts,
                   debugMode>>
    /\ UNCHANGED yoloVars
    /\ UNCHANGED pipeVars

UpdateDetectionsF64(D) ==
    /\ detections' = D
    /\ cells' = updateDetectionsCellsF64(cells, D, gridSize, canvasWidth,
                                         canvasHeight)
    /\ UNCHANGED <<gridSize, canvasWidth, canvasHeight, activeCells,
                   isRunning, timeouts,
                   debugMode>>
    /\ UNCHANGED yoloVars
    /\ UNCHANGED pipeVars

ClearDetectionsF64 ==
    /\ detections' = <<>>
    /\ cells' = [i \in DOMAIN cells |-> deactivateCellF64(cells[i])]
    /\ activeCells' = activeCells \ DOMAIN cells
    /\ UNCHANGED <<gridSize, canvasWidth, canvasHeight, isRunning, timeouts,
                   debugMode>>
    /\ UNCHANGED yoloVars
    /\ UNCHANGED pipeVars

InitF64 ==
    /\ gridSize \in F64GridSizes
    /\ \E sz \in F64CanvasSizes : canvasWidth = sz[1] /\ canvasHeight = sz[2]
    /\ cells = createGridF64(gridSize, canvasWidth, canvasHeight)
    /\ activeCells = {}
    /\ detections = <<>>
    /\ isRunning = FALSE
    /\ timeouts = NoTimeouts
    /\ debugMode = FALSE
    /\ yoloDefaults
    /\ pipeDefaults

NextF64 ==
    \/ \E n \in F64GridSizes : SetGridSizeF64(n)
    \/ \E sz \in F64CanvasSizes : ResizeF64(sz[1], sz[2])
    \/ \E D \in F64Lists : UpdateDetectionsF64(D)
    \/ ClearDetectionsF64

SpecF64 == InitF64 /\ [][NextF64]_vars

(***************************************************************************)
(* The grid driven with detections that tie                                *)
(***************************************************************************)
\* DetPool and a second detection with the box and score of "a"
TiePool ==
    DetPool \cup { Det("e", "dog", 90, <<50, 50, 80, 80>>) }

TieLists ==
    { D \in SeqsUpTo(TiePool, MaxDets) :
        \A i, j \in DOMAIN D : i # j => D[i] # D[j] }

\* a 3x3 grid on a 300x300 canvas: updateDetections with lists of TiePool,
\* clearDetections, start, stop, idle activation and its timeouts
InitTie ==
    /\ gridDefaults
    /\ yoloDefaults
    /\ pipeDefaults

NextTie ==
    \/ \E D \in TieLists : UpdateDetections(D)
    \/ ClearDetections
    \/ Start
    \/ Stop
    \/ \E S \in SUBSET SimCells : UpdateFrame(S)
    \/ \E id \in DOMAIN timeouts : TimeoutFires(id)
    \/ ToggleDebugMode
    \/ \E pt \in ClickPoints : HandleClick(pt[1], pt[2])

SpecTie == InitTie /\ [][NextTie]_vars

(***************************************************************************)
(* The idle simulation and the debug clicks on the default grid            *)
(***************************************************************************)
InitIdle ==
    /\ gridDefaults
    /\ yoloDefaults
    /\ pipeDefaults

\* start, stop, updateFrame activating up to four cells at once, the
\* deactivation timeouts, toggleDebugMode and clicks on the canvas
NextIdle ==
    \/ Start
    \/ Stop
    \/ \E S \in SUBSET IdleSimCells : UpdateFrame(S)
    \/ \E id \in DOMAIN timeouts : TimeoutFires(id)
    \/ ToggleDebugMode
    \/ \E pt \in IdleClickPoints : HandleClick(pt[1], pt[2])

SpecIdle == InitIdle /\ [][NextIdle]_vars

(***************************************************************************)
(* YOLOSimulation: settings, the model load, processFrame                  *)
(***************************************************************************)
\* Math.max(0, Math.min(1, threshold)), in hundredths
clampThreshold(t) == Max(0, Min(ScoreDen, t))

\* setConfidenceThreshold(threshold)
SetConfidenceThreshold(t) ==
    /\ confidenceThreshold' = clampThreshold(t)
    /\ UNCHANGED <<iouThreshold, rawDetections, frameData, yoloDetections,
                   onDetection>>
    /\ UNCHANGED gridVars
    /\ UNCHANGED pipeVars

\* setIoUThreshold(threshold)
SetIoUThreshold(t) ==
    /\ iouThreshold' = clampThreshold(t)
    /\ UNCHANGED <<confidenceThreshold, rawDetections, frameData,
                   yoloDetections, onDetection>>
    /\ UNCHANGED gridVars
    /\ UNCHANGED pipeVars

\* loadDemoScenario(scenarioName): Object.assign(this, scenario) for a
\* known name, nothing for any other
LoadDemoScenario(name) ==
    /\ IF name \in DOMAIN Scenarios
       THEN /\ confidenceThreshold' = Scenarios[name][1]
            /\ iouThreshold' = Scenarios[name][2]
       ELSE UNCHANGED <<confidenceThreshold, iouThreshold>>
    /\ UNCHANGED <<rawDetections, frameData, yoloDetections, onDetection>>
    /\ UNCHANGED gridVars
    /\ UNCHANGED pipeVars

\* resetSettings()
ResetSettings ==
    /\ confidenceThreshold' = 30
    /\ iouThreshold' = 50
    /\ UNCHANGED <<rawDetections, frameData, yoloDetections, onDetection>>
    /\ UNCHANGED gridVars
    /\ UNCHANGED pipeVars

\* YOLOSimulation.start()
YoloStart ==
    /\ yoloIsRunning' = TRUE
    /\ UNCHANGED gridVars
    /\ UNCHANGED yoloVars
    /\ UNCHANGED <<appIsRunning, appDetections, cameraIsActive, cameraStatus,
                   stream, frameInterval, frameCount, isModelLoaded,
                   modelLoads, inflight, starts>>

\* YOLOSimulation.stop(): isRunning = false, detections = []
YoloStop ==
    /\ yoloIsRunning' = FALSE
    /\ yoloDetections' = <<>>
    /\ UNCHANGED gridVars
    /\ UNCHANGED <<confidenceThreshold, iouThreshold, rawDetections,
                   frameData, onDetection>>
    /\ UNCHANGED <<appIsRunning, appDetections, cameraIsActive, cameraStatus,
                   stream, frameInterval, frameCount, isModelLoaded,
                   modelLoads, inflight, starts>>

\* loadModel(): an awaited cocoSsd.load() resolves (isModelLoaded = true) or
\* rejects (the catch block reports the error; isModelLoaded is left as it
\* is)
ModelLoadEnds(ok) ==
    /\ modelLoads > 0
    /\ modelLoads' = modelLoads - 1
    /\ isModelLoaded' = (ok \/ isModelLoaded)
    /\ UNCHANGED gridVars
    /\ UNCHANGED yoloVars
    /\ UNCHANGED <<appIsRunning, appDetections, cameraIsActive, cameraStatus,
                   stream, frameInterval, frameCount, yoloIsRunning, inflight,
                   starts>>

\* reloadModel(): model = null, isModelLoaded = false, then loadModel() is
\* awaited
ReloadModel ==
    /\ modelLoads < MaxLoads
    /\ isModelLoaded' = FALSE
    /\ modelLoads' = modelLoads + 1
    /\ UNCHANGED gridVars
    /\ UNCHANGED yoloVars
    /\ UNCHANGED <<appIsRunning, appDetections, cameraIsActive, cameraStatus,
                   stream, frameInterval, frameCount, yoloIsRunning, inflight,
                   starts>>

\* YOLOSimulation.cleanup(): stop(), the model is disposed and cleared,
\* isModelLoaded = false
YoloCleanup ==
    /\ yoloIsRunning' = FALSE
    /\ yoloDetections' = <<>>
    /\ isModelLoaded' = FALSE
    /\ UNCHANGED gridVars
    /\ UNCHANGED <<confidenceThreshold, iouThreshold, rawDetections,
                   frameData, onDetection>>
    /\ UNCHANGED <<appIsRunning, appDetections, cameraIsActive, cameraStatus,
                   stream, frameInterval, frameCount, modelLoads, inflight,
                   starts>>

\* a plausible slip: the model is not required to be loaded
processFrameBeginsUnloaded(running, loaded) == running

\* YOLOSimulation.processFrame gets past its guard and to the awaited
\* model.detect: isRunning and isModelLoaded
processFrameBegins(running, loaded) == running /\ loaded

\* YOLOSimulation.processFrame(frameData) is called: it returns at once
\* unless it is running with a loaded model, and else goes on to await
\* model.detect
ProcessFrame(frame) ==
    /\ processFrameBegins(yoloIsRunning, isModelLoaded)
          => Pending(inflight) < MaxInflight
    /\ inflight' = IF processFrameBegins(yoloIsRunning, isModelLoaded)
                   THEN Schedule(inflight, {frame})
                   ELSE inflight
    /\ UNCHANGED gridVars
    /\ UNCHANGED yoloVars
    /\ UNCHANGED <<appIsRunning, appDetections, cameraIsActive, cameraStatus,
                   stream, frameInterval, frameCount, yoloIsRunning,
                   isModelLoaded, modelLoads, starts>>

(***************************************************************************)
(* The pipeline: camera frames, the awaited model call, delivery           *)
(***************************************************************************)
\* a detection the model returns without a bbox (bbox undefined, written
\* here as the empty tuple): reading bbox[0] of it throws a TypeError
RawNoBox == [class |-> "car", score |-> 80, bbox |-> <<>>]

\* the results model.detect may resolve with
PipeRawLists ==
    { <<>>,
      <<Raw("person", 90, <<0, 0, 100, 100>>)>>,
      <<Raw("dog", 60, <<200, 200, 50, 50>>)>>,
      <<Raw("person", 90, <<0, 0, 100, 100>>), RawNoBox>> }

\* the sizes the video element reports at a tick of the frame interval:
\* videoWidth and videoHeight are 0 until the metadata of the stream it was
\* given last are loaded
VideoSizes == {<<0, 0>>, <<640, 0>>, <<640, 480>>}

\* the null that captureFrame() returns
NullFrame == [width |-> 0, height |-> 0]

\* captureFrame(): null for a video without dimensions, else the frame
\* with the size of the video and the frame canvas; n is metrics.frameCount
\* at the capture
captureFrame(n, videoWidth, videoHeight) ==
    IF videoWidth = 0 \/ videoHeight = 0 THEN NullFrame
    ELSE [width |-> videoWidth, height |-> videoHeight,
          canvasWidth |-> 640, canvasHeight |-> 480, frameNumber |-> n]

\* a pending start() of the camera: pc is the await it is at ("delay" is the
\* pause of restart() before its start()), app tells whether startCamera()
\* of the app awaits it
Flow(pc, app) == [pc |-> pc, app |-> app]

\* the pending call flow goes on to the next await
Advance(b, flow, pc) == Schedule(Unschedule(b, flow), {Flow(pc, flow.app)})

\* stop() sets srcObject = null and pauses the video element: every play()
\* that is awaited will reject
abortPlay(flow) ==
    IF flow.pc = "play" THEN Flow("playAborted", flow.app) ELSE flow

abortPlays(b) ==
    [g \in { abortPlay(f) : f \in DOMAIN b } |->
        SumOver(b, { f \in DOMAIN b : abortPlay(f) = g })]

\* startCamera() is called: showLoading, then cameraHandler.start() runs to
\* its first await (status 'connecting', checkPermissions)
StartCamera ==
    /\ Pending(starts) < MaxStarts
    /\ cameraStatus' = "connecting"
    /\ starts' = Schedule(starts, {Flow("permission", TRUE)})
    /\ UNCHANGED gridVars
    /\ UNCHANGED yoloVars
    /\ UNCHANGED <<appIsRunning, appDetections, cameraIsActive, stream,
                   frameInterval, frameCount, yoloIsRunning, isModelLoaded,
                   modelLoads, inflight>>

\* CameraHandler.start() is called on its own: notifyStatusChange(
\* 'connecting'), then it awaits checkPermissions()
CameraStartBegins ==
    /\ Pending(starts) < MaxStarts
    /\ cameraStatus' = "connecting"
    /\ starts' = Schedule(starts, {Flow("permission", FALSE)})
    /\ UNCHANGED gridVars
    /\ UNCHANGED yoloVars
    /\ UNCHANGED <<appIsRunning, appDetections, cameraIsActive, stream,
                   frameInterval, frameCount, yoloIsRunning, isModelLoaded,
                   modelLoads, inflight>>

\* checkPermissions() of a pending start() resolves: on 'denied' start()
\* throws into its catch block (status 'error') and rejects, otherwise it
\* awaits getUserMedia
CameraPermissionEnds(flow, granted) ==
    /\ flow \in DOMAIN starts
    /\ flow.pc = "permission"
    /\ IF granted
       THEN /\ starts' = Advance(starts, flow, "getUserMedia")
            /\ UNCHANGED cameraStatus
       ELSE /\ starts' = Unschedule(starts, flow)
            /\ cameraStatus' = "error"
    /\ UNCHANGED gridVars
    /\ UNCHANGED yoloVars
    /\ UNCHANGED <<appIsRunning, appDetections, cameraIsActive, stream,
                   frameInterval, frameCount, yoloIsRunning, isModelLoaded,
                   modelLoads, inflight>>

\* getUserMedia of a pending start() resolves (this.stream is assigned,
\* srcObject set, the listeners added, play() awaited) or rejects (catch
\* block).  A stream held before is dropped without its tracks being
\* stopped.
CameraStreamEnds(flow, ok) ==
    /\ flow \in DOMAIN starts
    /\ flow.pc = "getUserMedia"
    /\ IF ok
       THEN /\ stream' = TRUE
            /\ starts' = Advance(starts, flow, "play")
            /\ UNCHANGED cameraStatus
       ELSE /\ starts' = Unschedule(starts, flow)
            /\ cameraStatus' = "error"
            /\ UNCHANGED stream
    /\ UNCHANGED gridVars
    /\ UNCHANGED yoloVars
    /\ UNCHANGED <<appIsRunning, appDetections, cameraIsActive, frameInterval,
                   frameCount, yoloIsRunning, isModelLoaded, modelLoads,
                   inflight>>

\* the camera's fields start() reads and writes after its last await
Camera ==
    [isActive |-> cameraIsActive, status |-> cameraStatus,
     frameInterval |-> frameInterval]

\* a plausible slip: isActive set before videoElement.play() is awaited
cameraPlayEndsActiveBeforePlay(cam, ok) ==
    [isActive |-> TRUE,
     status |-> IF ok THEN "active" ELSE "error",
     frameInterval |-> ok \/ cam.frameInterval]

\* the end of start() once the awaited videoElement.play() has settled:
\* isActive = true, notifyStatusChange('active') and startFrameProcessing()
\* when it resolved, notifyStatusChange('error') in the catch block when it
\* rejected
cameraPlayEnds(cam, ok) ==
    IF ok
    THEN [isActive |-> TRUE, status |-> "active", frameInterval |-> TRUE]
    ELSE [isActive |-> cam.isActive, status |-> "error",
          frameInterval |-> cam.frameInterval]

\* videoElement.play() of a pending start() resolves (isActive = true,
\* status 'active', startFrameProcessing; start() resolves) or rejects
\* (catch block); a play() that stop() interrupted can only reject.  When
\* startCamera() awaited the start() that resolves, it goes on: the app,
\* the grid and the simulation are started; on a rejection its catch block
\* only shows the error.
CameraPlayEnds(flow, ok) ==
    /\ flow \in DOMAIN starts
    /\ flow.pc \in {"play", "playAborted"}
    /\ flow.pc = "playAborted" => ~ok
    /\ starts' = Unschedule(starts, flow)
    /\ LET cam == cameraPlayEnds(Camera, ok)
       IN  /\ cameraIsActive' = cam.isActive
           /\ cameraStatus' = cam.status
           /\ frameInterval' = cam.frameInterval
    /\ appIsRunning' = ((ok /\ flow.app) \/ appIsRunning)
    /\ isRunning' = ((ok /\ flow.app) \/ isRunning)
    /\ yoloIsRunning' = ((ok /\ flow.app) \/ yoloIsRunning)
    /\ UNCHANGED <<gridSize, canvasWidth, canvasHeight, cells, activeCells,
                   detections, timeouts, debugMode>>
    /\ UNCHANGED yoloVars
    /\ UNCHANGED <<appDetections, stream, frameCount, isModelLoaded,
                   modelLoads, inflight>>

\* CameraHandler.stop(): stopFrameProcessing, the tracks are stopped and
\* this.stream is cleared, srcObject = null and pause(), isActive = false,
\* status 'stopped'.  A start() that awaits checkPermissions or
\* getUserMedia is not touched.
CameraStop ==
    /\ frameInterval' = FALSE
    /\ stream' = FALSE
    /\ cameraIsActive' = FALSE
    /\ cameraStatus' = "stopped"
    /\ starts' = abortPlays(starts)
    /\ UNCHANGED gridVars
    /\ UNCHANGED yoloVars
    /\ UNCHANGED <<appIsRunning, appDetections, frameCount, yoloIsRunning,
                   isModelLoaded, modelLoads, inflight>>

\* stopCamera(): cameraHandler.stop(), gridManager.stop(),
\* yoloSimulation.stop(), then clearDetections()
StopCamera ==
    /\ frameInterval' = FALSE
    /\ stream' = FALSE
    /\ cameraIsActive' = FALSE
    /\ cameraStatus' = "stopped"
    /\ starts' = abortPlays(starts)
    /\ isRunning' = FALSE
    /\ yoloIsRunning' = FALSE
    /\ yoloDetections' = <<>>
    /\ appIsRunning' = FALSE
    /\ appDetections' = <<>>
    /\ detections' = <<>>
    /\ cells' = [i \in DOMAIN cells |-> deactivateCell(cells, i)[i]]
    /\ activeCells' = activeCells \ DOMAIN cells
    /\ UNCHANGED <<gridSize, canvasWidth, canvasHeight, timeouts, debugMode>>
    /\ UNCHANGED <<confidenceThreshold, iouThreshold, rawDetections,
                   frameData, onDetection>>
    /\ UNCHANGED <<frameCount, isModelLoaded, modelLoads, inflight>>

\* restart(): stop(), then a delay of 100 ms is awaited before start()
CameraRestartBegins ==
    /\ Pending(starts) < MaxStarts
    /\ frameInterval' = FALSE
    /\ stream' = FALSE
    /\ cameraIsActive' = FALSE
    /\ cameraStatus' = "stopped"
    /\ starts' = Schedule(abortPlays(starts), {Flow("delay", FALSE)})
    /\ UNCHANGED gridVars
    /\ UNCHANGED yoloVars
    /\ UNCHANGED <<appIsRunning, appDetections, frameCount, yoloIsRunning,
                   isModelLoaded, modelLoads, inflight>>

\* the delay of a restart() is over: start() is called
CameraDelayEnds(flow) ==
    /\ flow \in DOMAIN starts
    /\ flow.pc = "delay"
    /\ cameraStatus' = "connecting"
    /\ starts' = Advance(starts, flow, "permission")
    /\ UNCHANGED gridVars
    /\ UNCHANGED yoloVars
    /\ UNCHANGED <<appIsRunning, appDetections, cameraIsActive, stream,
                   frameInterval, frameCount, yoloIsRunning, isModelLoaded,
                   modelLoads, inflight>>

\* the video element fires 'loadedmetadata' for the stream it was given:
\* onVideoLoaded sizes the frame canvas and notifies 'active'
CameraVideoLoaded ==
    /\ stream
    /\ cameraStatus' = "active"
    /\ UNCHANGED gridVars
    /\ UNCHANGED yoloVars
    /\ UNCHANGED <<appIsRunning, appDetections, cameraIsActive, stream,
                   frameInterval, frameCount, yoloIsRunning, isModelLoaded,
                   modelLoads, inflight, starts>>

\* the video element fires 'error' for the stream it was given: the
\* listener start() added notifies 'error' and nothing else
CameraVideoError ==
    /\ stream
    /\ cameraStatus' = "error"
    /\ UNCHANGED gridVars
    /\ UNCHANGED yoloVars
    /\ UNCHANGED <<appIsRunning, appDetections, cameraIsActive, stream,
                   frameInterval, frameCount, yoloIsRunning, isModelLoaded,
                   modelLoads, inflight, starts>>

\* handleError(error, context): picks a message and notifies 'error'
CameraHandleError ==
    /\ cameraStatus' = "error"
    /\ UNCHANGED gridVars
    /\ UNCHANGED yoloVars
    /\ UNCHANGED <<appIsRunning, appDetections, cameraIsActive, stream,
                   frameInterval, frameCount, yoloIsRunning, isModelLoaded,
                   modelLoads, inflight, starts>>

\* the frame interval fires: CameraHandler.processFrame captures a frame
\* from the video, whose size is videoWidth x videoHeight.  When
\* captureFrame() returns null nothing else happens.  Otherwise it calls
\* onFrame = handleVideoFrame, which runs gridManager.updateFrame (S is the
\* set of cells the idle simulation draws) and starts
\* yoloSimulation.processFrame without awaiting it; updateMetrics then
\* counts the frame.
FrameTick(S, videoWidth, videoHeight) ==
    /\ frameInterval
    /\ cameraIsActive
    /\ LET captured == captureFrame(frameCount, videoWidth, videoHeight)
           activated == IF appIsRunning /\ isRunning
                        THEN { i \in S \cap DOMAIN cells :
                                 cells[i].state = "inactive" }
                        ELSE {}
       IN  IF captured = NullFrame
           THEN UNCHANGED <<cells, activeCells, timeouts, inflight,
                            frameCount>>
           ELSE /\ frameCount < MaxFrames
                /\ \A i \in activated :
                      TimeoutsOf(timeouts, i) < MaxTimeouts
                /\ cells' = [i \in DOMAIN cells |->
                                IF i \in activated
                                THEN activateCell(cells, i)[i]
                                ELSE cells[i]]
                /\ activeCells' = activeCells \cup activated
                /\ timeouts' = Schedule(timeouts, activated)
                /\ inflight' =
                      IF appIsRunning
                         /\ processFrameBegins(yoloIsRunning, isModelLoaded)
                      THEN Schedule(inflight, {captured})
                      ELSE inflight
                /\ frameCount' = frameCount + 1
    /\ UNCHANGED <<gridSize, canvasWidth, canvasHeight, detections, isRunning,
                   debugMode>>
    /\ UNCHANGED yoloVars
    /\ UNCHANGED <<appIsRunning, appDetections, cameraIsActive, cameraStatus,
                   stream, frameInterval, yoloIsRunning, isModelLoaded,
                   modelLoads, starts>>

\* the detection has a bbox array to destructure
hasBox(det) == Len(det.bbox) = 4

\* postprocessDetections throws: formatDetection reads bbox[0] of a
\* detection that passed the filter and has no bbox
postprocessThrows(raw, confT) ==
    \E k \in DOMAIN raw : passesFilter(raw[k], confT) /\ ~hasBox(raw[k])

\* the awaited model.detect of a processFrame(frame) resolves with raw and
\* processFrame runs on: postprocessDetections, this.detections,
\* notifyDetection, which calls onDetection when it is set: handleDetection
\* stores the list in the app's state and hands it to
\* gridManager.updateDetections.  When postprocessDetections throws, the
\* catch block reports the error and nothing is stored or delivered.
\* rawDetections is the result the model gave last and frameData the frame
\* of the last result that was post-processed.
ModelResolves(frame, raw) ==
    /\ frame \in DOMAIN inflight
    /\ inflight' = Unschedule(inflight, frame)
    /\ rawDetections' = raw
    /\ IF postprocessThrows(raw, confidenceThreshold)
       THEN UNCHANGED <<frameData, yoloDetections, appDetections, detections,
                        cells>>
       ELSE \E rnd \in RandomDraws(Len(raw)) :
               LET processed == postprocessDetections(raw, frame, rnd,
                                    confidenceThreshold, iouThreshold)
               IN  /\ frameData' = frame
                   /\ yoloDetections' = processed
                   /\ IF onDetection
                      THEN /\ appDetections' = processed
                           /\ detections' = processed
                           /\ cells' = updateDetectionsCells(cells,
                                           processed, gridSize, canvasWidth,
                                           canvasHeight)
                      ELSE UNCHANGED <<appDetections, detections, cells>>
    /\ UNCHANGED <<gridSize, canvasWidth, canvasHeight, activeCells,
                   isRunning, timeouts, debugMode>>
    /\ UNCHANGED <<confidenceThreshold, iouThreshold, onDetection>>
    /\ UNCHANGED <<appIsRunning, cameraIsActive, cameraStatus, stream,
                   frameInterval, frameCount, yoloIsRunning, isModelLoaded,
                   modelLoads, starts>>

\* the awaited model.detect of a processFrame(frame) rejects: the catch
\* block of processFrame reports the error
ModelRejects(frame) ==
    /\ frame \in DOMAIN inflight
    /\ inflight' = Unschedule(inflight, frame)
    /\ UNCHANGED gridVars
    /\ UNCHANGED yoloVars
    /\ UNCHANGED <<appIsRunning, appDetections, cameraIsActive, cameraStatus,
                   stream, frameInterval, frameCount, yoloIsRunning,
                   isModelLoaded, modelLoads, starts>>

\* the app after its construction: a 3x3 grid on a 300x300 canvas, the
\* camera idle, the simulation not running and its model load begun
InitPipe ==
    /\ gridDefaults
    /\ yoloDefaults
    /\ pipeDefaults

\* the app driven through startCamera() and stopCamera(), with the awaits of
\* start(), the 'loadedmetadata' and 'error' events of the video element,
\* handleError, the frame interval, the model calls and the model load
\* ending in any order
NextPipe ==
    \/ StartCamera
    \/ \E flow \in DOMAIN starts :
          \E granted \in BOOLEAN : CameraPermissionEnds(flow, granted)
    \/ \E flow \in DOMAIN starts :
          \E ok \in BOOLEAN : CameraStreamEnds(flow, ok)
    \/ \E flow \in DOMAIN starts :
          \E ok \in BOOLEAN : CameraPlayEnds(flow, ok)
    \/ StopCamera
    \/ CameraVideoLoaded
    \/ CameraVideoError
    \/ CameraHandleError
    \/ \E S \in SUBSET SimCells :
          \E size \in VideoSizes : FrameTick(S, size[1], size[2])
    \/ \E frame \in DOMAIN inflight :
          \E raw \in PipeRawLists : ModelResolves(frame, raw)
    \/ \E frame \in DOMAIN inflight : ModelRejects(frame)
    \/ \E ok \in BOOLEAN : ModelLoadEnds(ok)
    \/ \E id \in DOMAIN timeouts : TimeoutFires(id)

SpecPipe == InitPipe /\ [][NextPipe]_vars

(***************************************************************************)
(* The post-processor of a YOLOSimulation constructed on its own           *)
(***************************************************************************)
InitPost ==
    /\ gridDefaults
    /\ yoloAlone
    /\ pipeDefaults

\* start(), the model load, the thresholds of the demo scenarios and of
\* resetSettings, and processFrame called with the frame of PostFrames; the
\* model answers with the lists of RawLists
NextPost ==
    \/ YoloStart
    \/ \E ok \in BOOLEAN : ModelLoadEnds(ok)
    \/ \E name \in ScenarioNames : LoadDemoScenario(name)
    \/ ResetSettings
    \/ \E frame \in PostFrames : ProcessFrame(frame)
    \/ \E frame \in DOMAIN inflight :
          \E raw \in RawLists : ModelResolves(frame, raw)
    \/ \E frame \in DOMAIN inflight : ModelRejects(frame)

SpecPost == InitPost /\ [][NextPost]_vars

(***************************************************************************)
(* The controls of a YOLOSimulation constructed on its own                 *)
(***************************************************************************)
InitYolo ==
    /\ gridDefaults
    /\ yoloAlone
    /\ pipeDefaults

\* every control of the simulation called in any order, with the model
\* loads and the model calls ending in between
NextYolo ==
    \/ YoloStart
    \/ YoloStop
    \/ \E ok \in BOOLEAN : ModelLoadEnds(ok)
    \/ ReloadModel
    \/ YoloCleanup
    \/ \E t \in ThresholdInputs : SetConfidenceThreshold(t)
    \/ \E t \in ThresholdInputs : SetIoUThreshold(t)
    \/ \E name \in ScenarioNames : LoadDemoScenario(name)
    \/ ResetSettings
    \/ \E frame \in Frames : ProcessFrame(frame)
    \/ \E frame \in DOMAIN inflight :
          \E raw \in PipeRawLists : ModelResolves(frame, raw)
    \/ \E frame \in DOMAIN inflight : ModelRejects(frame)

SpecYolo == InitYolo /\ [][NextYolo]_vars

(***************************************************************************)
(* CameraHandler driven on its own                                         *)
(***************************************************************************)
InitCam ==
    /\ gridDefaults
    /\ yoloDefaults
    /\ pipeDefaults

\* start(), restart(), stop() and handleError() called in any order, with
\* the awaits of start() ending and the video element's events in between
NextCam ==
    \/ CameraStartBegins
    \/ CameraRestartBegins
    \/ \E flow \in DOMAIN starts : CameraDelayEnds(flow)
    \/ \E flow \in DOMAIN starts :
          \E granted \in BOOLEAN : CameraPermissionEnds(flow, granted)
    \/ \E flow \in DOMAIN starts :
          \E ok \in BOOLEAN : CameraStreamEnds(flow, ok)
    \/ \E flow \in DOMAIN starts :
          \E ok \in BOOLEAN : CameraPlayEnds(flow, ok)
    \/ CameraStop
    \/ CameraVideoLoaded
    \/ CameraVideoError
    \/ CameraHandleError
    \/ \E size \in VideoSizes : FrameTick({}, size[1], size[2])
    \/ \E ok \in BOOLEAN : ModelLoadEnds(ok)

SpecCam == InitCam /\ [][NextCam]_vars

(***************************************************************************)
(* Properties of the grid                                                  *)
(***************************************************************************)
\* the area two cell rectangles share
CellOverlap(a, b) ==
    LET w == Min(a.x + a.width, b.x + b.width) - Max(a.x, b.x)
        h == Min(a.y + a.height, b.y + b.height) - Max(a.y, b.y)
    IN  IF w > 0 /\ h > 0 THEN w * h ELSE 0

\* the summed area of the cells lo..hi, by halving the range
RECURSIVE AreaSum(_, _, _)
AreaSum(cs, lo, hi) ==
    IF lo > hi THEN 0
    ELSE IF lo = hi THEN cs[lo].width * cs[lo].height
    ELSE LET mid == (lo + hi) \div 2
         IN  AreaSum(cs, lo, mid) + AreaSum(cs, mid + 1, hi)

\* C1: at every reachable state (after construction and after any sequence of
\* setGridSize and resize calls) the grid holds exactly N*N cells, cell i has
\* row = floor(i/N) and col = i mod N, its rectangle is
\* (col*W/N, row*H/N, W/N, H/N) for the current canvas size W x H, no two
\* cells overlap, every cell lies in the canvas and the areas sum to W*H.
C1_GridTilesCanvas ==
    /\ DOMAIN cells = 0..(gridSize * gridSize - 1)
    /\ Cardinality(DOMAIN cells) = gridSize * gridSize
    /\ \A i \in DOMAIN cells :
          /\ cells[i].id = i
          /\ cells[i].row = i \div gridSize
          /\ cells[i].col = i % gridSize
          /\ cells[i].x * gridSize = cells[i].col * canvasWidth * SubPx
          /\ cells[i].y * gridSize = cells[i].row * canvasHeight * SubPx
          /\ cells[i].width * gridSize = canvasWidth * SubPx
          /\ cells[i].height * gridSize = canvasHeight * SubPx
          /\ cells[i].x >= 0
          /\ cells[i].y >= 0
          /\ cells[i].x + cells[i].width <= canvasWidth * SubPx
          /\ cells[i].y + cells[i].height <= canvasHeight * SubPx
    /\ \A i, j \in DOMAIN cells :
          i < j => CellOverlap(cells[i], cells[j]) = 0
    /\ AreaSum(cells, 0, gridSize * gridSize - 1)
          = (canvasWidth * SubPx) * (canvasHeight * SubPx)

\* C1 witness: a 19 x 19 grid on the 3458 x 1729 canvas that setGridSize has
\* rebuilt (activeCells still names a cell activated on the previous grid
\* while every cell of the new grid is inactive)
C1_Witness ==
    /\ gridSize = 19
    /\ canvasWidth = 3458
    /\ canvasHeight = 1729
    /\ activeCells # {}
    /\ \A i \in DOMAIN cells : cells[i].state = "inactive"

\* the ids in the candidate range of some detection of D
Covered(D) ==
    UNION { Range(getCellsInBoundingBox(D[k].bbox, gridSize, canvasWidth,
                                        canvasHeight)) : k \in DOMAIN D }

IsReset(cell) ==
    /\ cell.state = "active"
    /\ cell.confidence = Zero
    /\ cell.detection = NoDetection

\* C2: a step updateDetections(D) leaves every cell that was not inactive and
\* is in no detection's candidate range in state 'active' with confidence 0
\* and no owner (the reset that comes first); with D = [] every previously
\* non-inactive cell ends so, and every previously inactive cell is still
\* inactive.
C2_UpdateResetsFirst ==
    [][ \A D \in {detections'} : \A after \in {cells'} :
           UpdateDetections(D) =>
              \A i \in DOMAIN cells :
                 /\ (cells[i].state # "inactive" /\ i \notin Covered(D))
                       => IsReset(after[i])
                 /\ (D = <<>> /\ cells[i].state = "inactive")
                       => after[i].state = "inactive" ]_vars

\* C2 witness: after updateDetections([]) a cell is 'active' without being
\* in activeCells, so it was in a detection state and has been reset, while
\* another cell is inactive
C2_Witness ==
    /\ detections = <<>>
    /\ \E i \in DOMAIN cells : IsReset(cells[i]) /\ i \notin activeCells
    /\ \E j \in DOMAIN cells : cells[j].state = "inactive"

\* the adjusted confidences the detections of D whose candidate range holds
\* cell i have for it, and their maximum (0 when there is none)
AdjustedOf(i, D) ==
    { adjustedConfidence(cells[i], D[k]) :
        k \in { j \in DOMAIN D :
                  i \in Range(getCellsInBoundingBox(D[j].bbox, gridSize,
                                                    canvasWidth,
                                                    canvasHeight)) } }

MaxAdjusted(i, D) ==
    LET S == AdjustedOf(i, D) \cup {Zero}
    IN  CHOOSE c \in S : \A e \in S : RatLE(e, c)

\* C3 (as stated; refuted): after a step updateDetections(D) every cell's
\* confidence is the maximum adjusted confidence over the detections of D
\* that cover it, and 0 when none covers it.  An inactive cell is skipped by
\* the reset, so it keeps the confidence an earlier call gave it.
C3_ConfidenceIsMaxAdjusted ==
    [][ UpdateDetections(detections') =>
          \A i \in DOMAIN cells :
             cells'[i].confidence = MaxAdjusted(i, detections') ]_vars

\* C4 (as stated; refuted): after a step updateDetections(D) the owner of a
\* cell, if there is one, is a member of D that covers the cell and has the
\* highest adjusted confidence for it.  An inactive cell keeps the owner an
\* earlier call gave it.
C4_OwnerIsBestOfList ==
    [][ UpdateDetections(detections') =>
          \A i \in DOMAIN cells :
             cells'[i].detection # NoDetection =>
                \E k \in DOMAIN detections' :
                   /\ detections'[k] = cells'[i].detection
                   /\ i \in Range(getCellsInBoundingBox(
                                     detections'[k].bbox, gridSize,
                                     canvasWidth, canvasHeight))
                   /\ adjustedConfidence(cells[i], detections'[k])
                         = MaxAdjusted(i, detections') ]_vars

\* what a cell shows of a detection update: state, confidence and owner
Shown(cs) ==
    [i \in DOMAIN cs |-> <<cs[i].state, cs[i].confidence, cs[i].detection>>]

\* the cells after one and after two calls of updateDetections(D)
Once(D) ==
    updateDetectionsCells(cells, D, gridSize, canvasWidth, canvasHeight)

Again(cs, D) ==
    updateDetectionsCells(cs, D, gridSize, canvasWidth, canvasHeight)

\* C5: in every reachable grid state and for every detection list D, calling
\* updateDetections(D) twice in a row leaves every cell's state, confidence
\* and owner as they were after the first call.
C5_UpdateIdempotent ==
    \A D \in DetLists : \A once \in {Once(D)} :
       Shown(Again(once, D)) = Shown(once)

\* C5 witness: the cells are what updateDetections(detections) made of them
\* for a non-empty list, with a cell in a detection state (reset and mapped
\* again by a second call), a reset cell, and an inactive cell that carries
\* a confidence (skipped by the reset of a second call)
C5_Witness ==
    /\ detections # <<>>
    /\ Shown(cells) = Shown(Once(detections))
    /\ \E i \in DOMAIN cells :
          cells[i].state \in {"detecting", "detected", "confident"}
    /\ \E i \in DOMAIN cells : IsReset(cells[i])
    /\ \E i \in DOMAIN cells :
          cells[i].state = "inactive" /\ cells[i].confidence # Zero

\* C6: after a step updateDetections(D) every cell that was not inactive
\* before the call has the state its final confidence c fixes: 'confident'
\* iff c > 0.7, 'detected' iff 0.4 < c <= 0.7, 'detecting' iff
\* 0.1 < c <= 0.4, 'active' iff c <= 0.1.
C6_StateFixedByConfidence ==
    [][ \A D \in {detections'} : \A after \in {cells'} :
           UpdateDetections(D) =>
              \A i \in DOMAIN cells :
                 cells[i].state # "inactive" =>
                    \A c \in {after[i].confidence} :
                    \A st \in {after[i].state} :
                       /\ st = "confident" <=> RatGT(c, Hundredths(70))
                       /\ st = "detected" <=>
                             /\ RatGT(c, Hundredths(40))
                             /\ RatLE(c, Hundredths(70))
                       /\ st = "detecting" <=>
                             /\ RatGT(c, Hundredths(10))
                             /\ RatLE(c, Hundredths(40))
                       /\ st = "active" <=> RatLE(c, Hundredths(10)) ]_vars

\* C6 witness: updateDetections has left a cell 'active' with a confidence
\* of exactly 0.1 (it is not in activeCells, so it was in a detection state
\* before the call and has been reset), and another cell 'confident'
C6_Witness ==
    /\ detections # <<>>
    /\ \E i \in DOMAIN cells :
          /\ cells[i].state = "active"
          /\ cells[i].confidence = Hundredths(10)
          /\ i \notin activeCells
    /\ \E j \in DOMAIN cells : cells[j].state = "confident"

(***************************************************************************)
(* Properties of the post-processor                                        *)
(***************************************************************************)
\* a detection without its random id
Strip(d) == [class |-> d.class, score |-> d.score, bbox |-> d.bbox]

StripAll(dets) == [k \in DOMAIN dets |-> Strip(dets[k])]

\* what a run of postprocessDetections was given and what was stored of it
PostState ==
    [raw |-> rawDetections, frame |-> frameData,
     confT |-> confidenceThreshold, iouT |-> iouThreshold,
     dets |-> StripAll(yoloDetections)]

\* the list handed to applyNMS, ids left out
Processed(st) ==
    StripAll(processedDetections(st.raw, st.frame,
                                 [k \in 1..Len(st.raw) |-> "r1"], st.confT))

\* the raw detections at or above the confidence threshold, in input order
RECURSIVE AtOrAbove(_, _)
AtOrAbove(raw, confT) ==
    IF raw = <<>> THEN <<>>
    ELSE (IF Head(raw).score >= confT THEN <<Head(raw)>> ELSE <<>>)
         \o AtOrAbove(Tail(raw), confT)

Formatted(r, frame) == Strip(formatDetection(r, frame, "r1"))

\* of two raw detections in input order: the one sorted first (higher score,
\* the earlier one on equal scores) and the other
PairFirst(p) == IF p[2].score > p[1].score THEN p[2] ELSE p[1]
PairSecond(p) == IF p[2].score > p[1].score THEN p[1] ELSE p[2]

PairIoU(p, frame) ==
    calculateIoU(Formatted(p[1], frame).bbox, Formatted(p[2], frame).bbox)

\* a step in which an awaited model call resolves and processFrame stores
\* what postprocessDetections returns for the result
Posts ==
    \E frame \in DOMAIN inflight :
       \E raw \in {rawDetections'} : ModelResolves(frame, raw)

\* of the two detections that reach applyNMS, an IoU above iouThreshold
\* keeps the first only and an IoU at or below it keeps both
PairSuppressionStrict(st) ==
    LET p == AtOrAbove(st.raw, st.confT)
    IN  Len(p) = 2 =>
           /\ RatGT(PairIoU(p, st.frame), Hundredths(st.iouT))
                 => st.dets = <<Formatted(PairFirst(p), st.frame)>>
           /\ RatLE(PairIoU(p, st.frame), Hundredths(st.iouT))
                 => st.dets = <<Formatted(PairFirst(p), st.frame),
                                Formatted(PairSecond(p), st.frame)>>

\* C7 (amended): when exactly two detections reach applyNMS, an IoU strictly
\* above iouThreshold keeps only the higher-scored one (the earlier one on
\* equal scores), and an IoU at or below iouThreshold keeps both; at an IoU
\* equal to the threshold both are kept.
C7_PairSuppressionStrict ==
    [][ Posts => \A st \in {PostState'} : PairSuppressionStrict(st) ]_vars

\* of the two detections that reach applyNMS, an IoU at or above
\* iouThreshold keeps the first only and an IoU below it keeps both
PairSuppressionInclusive(st) ==
    LET p == AtOrAbove(st.raw, st.confT)
    IN  Len(p) = 2 =>
           /\ RatLE(Hundredths(st.iouT), PairIoU(p, st.frame))
                 => st.dets = <<Formatted(PairFirst(p), st.frame)>>
           /\ RatLT(PairIoU(p, st.frame), Hundredths(st.iouT))
                 => st.dets = <<Formatted(PairFirst(p), st.frame),
                                Formatted(PairSecond(p), st.frame)>>

\* C7 (as stated; refuted): with an IoU at or above iouThreshold only the
\* higher-scored detection is kept, with an IoU below it both are kept.
C7_PairSuppressionInclusive ==
    [][ Posts => \A st \in {PostState'} : PairSuppressionInclusive(st) ]_vars

\* C7 witness: two detections with an IoU of exactly iouThreshold have been
\* post-processed and both are in the result
C7_Witness ==
    LET p == AtOrAbove(rawDetections, confidenceThreshold)
    IN  /\ Len(p) = 2
        /\ PairIoU(p, frameData) = Hundredths(iouThreshold)
        /\ StripAll(yoloDetections)
              = <<Formatted(PairFirst(p), frameData),
                  Formatted(PairSecond(p), frameData)>>

\* detection i of the list overlaps detection j beyond the IoU threshold
Over(dets, i, j, iouT) ==
    RatGT(calculateIoU(dets[i].bbox, dets[j].bbox), Hundredths(iouT))

\* the greedy rule: detection j is kept iff no earlier detection that is
\* itself kept overlaps it beyond the threshold
RECURSIVE Kept(_, _, _)
Kept(dets, j, iouT) ==
    \A i \in 1..(j - 1) : Kept(dets, i, iouT) => ~Over(dets, i, j, iouT)

\* the kept detections of dets, in order
KeptOf(dets, iouT) ==
    LET keep == { j \in DOMAIN dets : Kept(dets, j, iouT) }
        RECURSIVE From(_)
        From(j) == IF j > Len(dets) THEN <<>>
                   ELSE (IF j \in keep THEN <<dets[j]>> ELSE <<>>)
                        \o From(j + 1)
    IN  From(1)

\* every class label replaced by one label
Relabel(dets) == [k \in DOMAIN dets |-> [dets[k] EXCEPT !.class = "object"]]

\* the stored list is the greedy result for the list handed to applyNMS
GreedySuppression(st) ==
    \A P \in {Processed(st)} :
       /\ st.dets = KeptOf(P, st.iouT)
       /\ P # <<>> => st.dets[1] = P[1]
       /\ Relabel(applyNMS(P, st.iouT)) = applyNMS(Relabel(P), st.iouT)

\* C8: on the score-sorted list handed to it, applyNMS returns exactly the
\* greedy result: a detection is dropped iff an earlier detection that was
\* itself kept overlaps it beyond iouThreshold, so one that overlaps only
\* dropped detections is kept and the first is always kept; replacing every
\* class label by the same label changes nothing but the labels.
C8_GreedySuppression ==
    [][ Posts => \A st \in {PostState'} : GreedySuppression(st) ]_vars

\* C8 witness: three detections were post-processed; the second, of another
\* class than the first, was dropped for its overlap with the first, and the
\* third, which overlaps the dropped second beyond the threshold but not the
\* first, is in the result
C8_Witness ==
    \E P \in {Processed(PostState)} :
       /\ Len(P) = 3
       /\ P[1].class # P[2].class
       /\ Over(P, 1, 2, iouThreshold)
       /\ Over(P, 2, 3, iouThreshold)
       /\ ~Over(P, 1, 3, iouThreshold)
       /\ StripAll(yoloDetections) = <<P[1], P[3]>>

\* the stored list holds nothing below confidenceThreshold, and what is at
\* or above it has reached applyNMS and is stored unless suppressed
FilterThreshold(st) ==
    \A P \in {Processed(st)} :
       /\ \A k \in DOMAIN st.dets : st.dets[k].score >= st.confT
       /\ Len(P) = Cardinality({ k \in DOMAIN st.raw :
                                   st.raw[k].score >= st.confT })
       /\ \A k \in DOMAIN st.raw :
             st.raw[k].score >= st.confT =>
                /\ Formatted(st.raw[k], st.frame) \in Range(P)
                /\ \/ Formatted(st.raw[k], st.frame) \in Range(st.dets)
                   \/ \E o \in DOMAIN st.dets :
                         RatGT(calculateIoU(st.dets[o].bbox,
                                   Formatted(st.raw[k], st.frame).bbox),
                               Hundredths(st.iouT))

\* C9: postprocessDetections returns no detection with a score below
\* confidenceThreshold; the list that reaches applyNMS holds every raw
\* detection with a score at or above confidenceThreshold, and each of these
\* is in the result unless a detection of the result overlaps it beyond
\* iouThreshold.
C9_FilterThreshold ==
    [][ Posts => \A st \in {PostState'} : FilterThreshold(st) ]_vars

\* C9 witness: a detection with a score equal to confidenceThreshold is in
\* the result, and another with a lower score was filtered out
C9_Witness ==
    /\ \E k \in DOMAIN yoloDetections :
          yoloDetections[k].score = confidenceThreshold
    /\ \E k \in DOMAIN rawDetections :
          rawDetections[k].score < confidenceThreshold
    /\ Len(yoloDetections) < Len(rawDetections)

\* the boxes calculateIoU is applied to in the current state
StateBoxes ==
    { Formatted(rawDetections[k], frameData).bbox :
        k \in DOMAIN rawDetections }

\* the two boxes share no point of positive area
Disjoint(a, b) ==
    \/ a[1] + a[3] <= b[1]
    \/ b[1] + b[3] <= a[1]
    \/ a[2] + a[4] <= b[2]
    \/ b[2] + b[4] <= a[2]

InUnitInterval(q) == q.n >= 0 /\ q.d > 0 /\ q.n <= q.d

One == [n |-> 1, d |-> 1]

\* C10 (amended): for boxes with non-negative width and height calculateIoU
\* lies in [0,1] and is 0 when the boxes do not overlap; calculateIoU(a, a)
\* is 1 for every box of positive width and height, and 0 for a box whose
\* width or height is 0.
C10_IoURangeAndSelf ==
    \A a, b \in StateBoxes :
       /\ InUnitInterval(calculateIoU(a, b))
       /\ Disjoint(a, b) => calculateIoU(a, b) = Zero
       /\ (a[3] > 0 /\ a[4] > 0) => calculateIoU(a, a) = One
       /\ (a[3] = 0 \/ a[4] = 0) => calculateIoU(a, a) = Zero

\* C10 (as stated; refuted): calculateIoU lies in [0,1], is 0 when the boxes
\* do not overlap, and calculateIoU(a, a) = 1 for every box.
C10_IoUSelfAlwaysOne ==
    \A a, b \in StateBoxes :
       /\ InUnitInterval(calculateIoU(a, b))
       /\ Disjoint(a, b) => calculateIoU(a, b) = Zero
       /\ calculateIoU(a, a) = One

\* C10 witness: the post-processor has run on a list that holds a box of
\* width 0, two boxes that overlap in part and two boxes that are disjoint
C10_Witness ==
    /\ yoloDetections # <<>>
    /\ \E a \in StateBoxes : a[3] = 0
    /\ \E a, b \in StateBoxes :
          /\ ~Disjoint(a, b)
          /\ calculateIoU(a, b) # Zero
          /\ calculateIoU(a, b) # One
    /\ \E a, b \in StateBoxes : a # b /\ Disjoint(a, b)

(***************************************************************************)
(* Properties of calculateIntersection                                     *)
(***************************************************************************)
\* a pixel box <<x, y, width, height>> as a rectangle in 1/SubPx pixel
RectOf(bbox) ==
    [x |-> bbox[1] * SubPx, y |-> bbox[2] * SubPx,
     width |-> bbox[3] * SubPx, height |-> bbox[4] * SubPx]

CellRect(cell) ==
    [x |-> cell.x, y |-> cell.y, width |-> cell.width, height |-> cell.height]

\* the boxes of the current detection list, and the cells of the grid whose
\* rectangle has whole-pixel coordinates, as pixel boxes
GridBoxes ==
    { detections[k].bbox : k \in DOMAIN detections }
    \cup { << cells[i].x \div SubPx, cells[i].y \div SubPx,
              cells[i].width \div SubPx, cells[i].height \div SubPx >> :
           i \in { j \in DOMAIN cells :
                     /\ cells[j].x % SubPx = 0
                     /\ cells[j].y % SubPx = 0
                     /\ cells[j].width % SubPx = 0
                     /\ cells[j].height % SubPx = 0 } }

\* every rectangle of the state: all cells and all boxes
GridRects ==
    { CellRect(cells[i]) : i \in DOMAIN cells }
    \cup { RectOf(b) : b \in GridBoxes }

\* max(0, min(a.right, b.right) - max(a.left, b.left))
\*   * max(0, min(a.bottom, b.bottom) - max(a.top, b.top))
RectIntersectionArea(a, b) ==
    Max(0, Min(a.x + a.width, b.x + b.width) - Max(a.x, b.x))
    * Max(0, Min(a.y + a.height, b.y + b.height) - Max(a.y, b.y))

\* the rectangles share no interior point (disjoint or merely touching)
Apart(a, b) ==
    \/ a.x + a.width <= b.x
    \/ b.x + b.width <= a.x
    \/ a.y + a.height <= b.y
    \/ b.y + b.height <= a.y

C16_SetGridSizeClearsCells ==
    [][ \A N \in {gridSize'} : \A after \in {cells'} :
           SetGridSize(N) =>
              /\ DOMAIN after = CellIds(N)
              /\ \A i \in DOMAIN after :
                    /\ after[i].state = "inactive"
                    /\ after[i].confidence = Zero
                    /\ after[i].detection = NoDetection ]_vars

\* C16 witness: setGridSize has rebuilt a grid that showed detections: the
\* detection list is still there while every cell is inactive, without
\* confidence or owner (updateDetections of a non-empty list of DetPool
\* leaves an owner in some cell, and clearDetections empties the list)
C16_Witness ==
    /\ detections # <<>>
    /\ \A i \in DOMAIN cells :
          /\ cells[i].state = "inactive"
          /\ cells[i].confidence = Zero
          /\ cells[i].detection = NoDetection

\* C17: a step resize() changes only the canvas size and the cells' pixel
\* rectangles: the cell count, every cell's id, row, col, state, confidence
\* and owner, the detection list and activeCells stay as they were.
C17_ResizeKeepsCellState ==
    [][ \A W \in {canvasWidth'} : \A H \in {canvasHeight'} :
        \A after \in {cells'} :
           Resize(W, H) =>
              /\ DOMAIN after = DOMAIN cells
              /\ \A i \in DOMAIN cells :
                    /\ after[i].id = cells[i].id
                    /\ after[i].row = cells[i].row
                    /\ after[i].col = cells[i].col
                    /\ after[i].state = cells[i].state
                    /\ after[i].confidence = cells[i].confidence
                    /\ after[i].detection = cells[i].detection
              /\ gridSize' = gridSize
              /\ detections' = detections
              /\ activeCells' = activeCells ]_vars

\* C17 witness: a cell in a detection state owns a detection with a
\* confidence that is not the adjusted confidence of that detection on the
\* cell's present rectangle: the canvas was resized after the mapping
C17_Witness ==
    \E i \in DOMAIN cells :
       /\ cells[i].state \in {"detecting", "detected", "confident"}
       /\ cells[i].detection # NoDetection
       /\ cells[i].confidence
             # adjustedConfidence(cells[i], cells[i].detection)

(***************************************************************************)
(* Properties of the pipeline                                              *)
(***************************************************************************)
\* C12 (as stated; refuted): at most one frame is being processed at any
\* time, that is, at most one processFrame awaits its model call.  The
\* frame interval starts processFrame for every frame without waiting for
\* the one before.
C12_OneFrameInFlight ==
    Pending(inflight) <= 1

\* the awaited model call of a frame resolves and its result is delivered
\* to handleDetection
Delivers(frame) ==
    /\ ~postprocessThrows(rawDetections', confidenceThreshold)
    /\ ModelResolves(frame, rawDetections')

\* C13 (as stated; refuted): results reach the grid in frame order: when
\* the result of frame k is delivered, the result delivered last, if any,
\* is that of a frame captured before k.  Two model calls in flight may
\* resolve in either order.
C13_DeliveredInFrameOrder ==
    [][ \A frame \in DOMAIN inflight :
           Delivers(frame) =>
              ("frameNumber" \in DOMAIN frameData
                  => frameData.frameNumber < frame.frameNumber) ]_vars

\* no cell shows anything of a detection
GridShowsNothing ==
    \A i \in DOMAIN cells :
       /\ cells[i].state \notin {"detecting", "detected", "confident"}
       /\ cells[i].confidence = Zero
       /\ cells[i].detection = NoDetection

\* C14 (as stated; refuted): while the app is stopped, app.state.detections
\* is empty and no cell has a detection state, a confidence or an owner.
\* A model call in flight at the stop delivers its result when it resolves.
C14_NothingDeliveredWhileStopped ==
    ~appIsRunning => (appDetections = <<>> /\ GridShowsNothing)

\* C15 (as stated; refuted): no scheduled callback runs while the app is
\* stopped.  stop() cancels the frame interval and the animation frame, but
\* a deactivation timeout set by simulateGridActivation still fires.
C15_NoCallbackWhileStopped ==
    [][ (\E id \in DOMAIN timeouts : TimeoutFires(id)) => appIsRunning ]_vars

\* a start() that startCamera() awaits fails at its permission check, at
\* getUserMedia or at videoElement.play()
StartFails ==
    \E flow \in DOMAIN starts :
       /\ flow.app
       /\ \/ CameraPermissionEnds(flow, FALSE)
          \/ CameraStreamEnds(flow, FALSE)
          \/ CameraPlayEnds(flow, FALSE)

\* a start() that startCamera() awaits resolves
StartSucceeds ==
    \E flow \in DOMAIN starts : flow.app /\ CameraPlayEnds(flow, TRUE)

\* C18: a step in which the cameraHandler.start() of a startCamera() fails
\* leaves the status 'error', ends that start() without beginning another
\* (it rejects; no retry) and starts nothing: app.isRunning,
\* CameraHandler.isActive, the frame interval, GridManager.isRunning and
\* YOLOSimulation.isRunning are as before, all false when the app was not
\* running, and no frame is handed out or put in flight; and while the app
\* is not running no frame is handed to onFrame and only a start() that
\* resolves starts it.
C18_AcquisitionFailure ==
    [][ /\ StartFails =>
             /\ cameraStatus' = "error"
             /\ Pending(starts') = Pending(starts) - 1
             /\ UNCHANGED <<appIsRunning, cameraIsActive, frameInterval,
                            isRunning, yoloIsRunning, frameCount, inflight>>
             /\ ~appIsRunning =>
                   /\ ~cameraIsActive'
                   /\ ~frameInterval'
                   /\ ~isRunning'
                   /\ ~yoloIsRunning'
        /\ ~appIsRunning =>
             /\ frameCount' = frameCount
             /\ appIsRunning' => StartSucceeds ]_vars

\* C18 witness: videoElement.play() has failed on a start after an earlier
\* run: the status is 'error', a stream is held, frames were counted before,
\* no start is pending and nothing is running
C18_Witness ==
    /\ cameraStatus = "error"
    /\ stream
    /\ frameCount > 0
    /\ Pending(starts) = 0
    /\ ~appIsRunning
    /\ ~cameraIsActive
    /\ ~frameInterval

\* C19: while the model is not loaded (its load has failed or is pending)
\* no processFrame gets to the model call: no frame is put in flight; and
\* with no frame in flight no step produces a detection: the lists of the
\* simulation, of the app and of the grid stay as they are or are emptied
\* and no cell gets an owner.  So from a load that failed on, nothing is
\* delivered, unless a reloadModel() succeeds.
C19_NoDetectionsWithoutModel ==
    [][ ~isModelLoaded =>
          /\ \A frame \in DOMAIN inflight' :
                /\ frame \in DOMAIN inflight
                /\ inflight'[frame] <= inflight[frame]
          /\ inflight = NoFrames =>
                /\ yoloDetections' \in {yoloDetections, <<>>}
                /\ appDetections' \in {appDetections, <<>>}
                /\ detections' \in {detections, <<>>}
                /\ \A i \in DOMAIN cells :
                      cells'[i].detection \in {cells[i].detection,
                                               NoDetection} ]_vars

\* C19 witness: the model has failed to load (it is not loaded and no load
\* is pending) and the pipeline runs: frames have been handed out, the idle
\* simulation has activated a cell, and no result was ever post-processed
C19_Witness ==
    /\ ~isModelLoaded
    /\ modelLoads = 0
    /\ appIsRunning
    /\ isRunning
    /\ yoloIsRunning
    /\ frameCount >= 2
    /\ activeCells # {}
    /\ inflight = NoFrames
    /\ "frameNumber" \notin DOMAIN frameData
    /\ appDetections = <<>>
    /\ detections = <<>>

\* the detections of raw that have a bbox
RECURSIVE WellFormed(_)
WellFormed(raw) ==
    IF raw = <<>> THEN <<>>
    ELSE (IF hasBox(Head(raw)) THEN <<Head(raw)>> ELSE <<>>)
         \o WellFormed(Tail(raw))

\* C20 (as stated; refuted): when a model call resolves, what is delivered
\* is the post-processed list of the well-formed detections of the result,
\* as if a detection without a bbox had not been present.
\* postprocessDetections throws on such a detection and the frame delivers
\* nothing.
C20_MalformedSkipped ==
    [][ \A frame \in DOMAIN inflight : ModelResolves(frame, rawDetections') =>
          /\ StripAll(appDetections')
                = StripAll(postprocessDetections(WellFormed(rawDetections'),
                      frame,
                      [j \in 1..Len(WellFormed(rawDetections')) |-> "r1"],
                      confidenceThreshold, iouThreshold))
          /\ detections' = appDetections' ]_vars

(***************************************************************************)
(* Further properties of the grid                                          *)
(***************************************************************************)
\* the detection of the worked scenario: box (50,50,80,80), score 0.9
ScenarioDet == Det("a", "person", 90, <<50, 50, 80, 80>>)

\* updateDetections runs with the scenario's list on a 3x3 grid on a
\* 300x300 canvas
ScenarioStep ==
    /\ gridSize = 3
    /\ canvasWidth = 300
    /\ canvasHeight = 300
    /\ UpdateDetections(<<ScenarioDet>>)

\* C21 (amended): with a 3x3 grid on a 300x300 canvas and the single
\* detection (50,50,80,80) with score 0.9, updateDetections gives cell (0,0)
\* an intersection of 50 x 50 = 2500 square pixels with the box (which spans
\* 50..130), hence ratio 0.25, adjusted confidence 0.225 and state
\* 'detecting', with the detection as owner.
C21_ScenarioCellZero ==
    [][ ScenarioStep =>
          \A cell \in {cells'[0]} :
             /\ calculateIntersection(cell, ScenarioDet.bbox)
                   = 2500 * SubPx * SubPx
             /\ cell.confidence = Rat(225, 1000)
             /\ cell.state = "detecting"
             /\ cell.detection = ScenarioDet ]_vars

\* C21 (as stated; refuted): in the same scenario cell (0,0) has an
\* intersection of 6400 with the box, adjusted confidence 0.576 and state
\* 'detected'.
C21_ScenarioAsStated ==
    [][ ScenarioStep =>
          \A cell \in {cells'[0]} :
             /\ calculateIntersection(cell, ScenarioDet.bbox)
                   = 6400 * SubPx * SubPx
             /\ cell.confidence = Rat(576, 1000)
             /\ cell.state = "detected" ]_vars

\* C21 witness: the scenario's updateDetections has run: 3x3 grid, 300x300
\* canvas, the list is the one detection and cell (0,0) is owned by it
C21_Witness ==
    /\ gridSize = 3
    /\ canvasWidth = 300
    /\ canvasHeight = 300
    /\ detections = <<ScenarioDet>>
    /\ cells[0].detection = ScenarioDet
    /\ cells[0].state = "detecting"
    /\ cells[8].confidence = Zero

(***************************************************************************)
(* Further properties of the post-processor                                *)
(***************************************************************************)
\* the stored list is what postprocessDetections returns for the raw
\* detections, frame and thresholds of the state, for some random draws
StoredForInputs ==
    \E rnd \in RandomDraws(Len(rawDetections)) :
       yoloDetections = postprocessDetections(rawDetections, frameData, rnd,
                            confidenceThreshold, iouThreshold)

\* C22 (as stated; refuted): two runs of postprocessDetections on the same
\* raw detections, frame and thresholds return equal lists, every field of
\* every detection equal: when the list of a run is stored and a step runs
\* postprocessDetections on the same raw detections and frame, with the
\* thresholds as they are, it stores an equal list.
\* formatDetection draws a fresh id from Math.random() in every run.
C22_SameInputsSameResult ==
    [][ ( /\ StoredForInputs
          /\ frameData \in DOMAIN inflight
          /\ ModelResolves(frameData, rawDetections) )
           => yoloDetections' = yoloDetections ]_vars

(***************************************************************************)
(* Properties of ties                                                      *)
(***************************************************************************)
\* detection D[k] is handed cell i by getCellsInBoundingBox
Reaches(i, D, k) ==
    i \in Range(getCellsInBoundingBox(D[k].bbox, gridSize, canvasWidth,
                                      canvasHeight))

\* D[j] is the first detection of D whose adjusted confidence for cell i is
\* the positive maximum over D, and a later detection of D yields the same
FirstOfTie(i, D, j) ==
    /\ Reaches(i, D, j)
    /\ adjustedConfidence(cells[i], D[j]) = MaxAdjusted(i, D)
    /\ MaxAdjusted(i, D) # Zero
    /\ \A m \in 1..(j - 1) :
          Reaches(i, D, m) =>
             adjustedConfidence(cells[i], D[m]) # MaxAdjusted(i, D)
    /\ \E k \in (j + 1)..Len(D) :
          /\ Reaches(i, D, k)
          /\ adjustedConfidence(cells[i], D[k]) = MaxAdjusted(i, D)

\* C24 (as stated; refuted): when two detections of the list yield the same
\* adjusted confidence for a cell and that value is the cell's maximum, the
\* owner of the cell after updateDetections is the one that comes first in
\* the list.  An inactive cell that kept a confidence of that value from an
\* earlier call adopts neither and keeps its earlier owner.
C24_FirstOfTieOwns ==
    [][ UpdateDetections(detections') =>
          \A i \in DOMAIN cells : \A j \in DOMAIN detections' :
             FirstOfTie(i, detections', j)
                => cells'[i].detection = detections'[j] ]_vars

(***************************************************************************)
(* Properties of getCellsInBoundingBox                                     *)
(***************************************************************************)
\* the boxes of BoxPool
PoolBoxes == { d.bbox : d \in BoxPool }

\* C25 in exact arithmetic: for every box of the pool and every grid of a
\* reachable state,
\* getCellsInBoundingBox returns only ids of cells of the grid (row and col
\* within [0, N-1]), also for boxes across or outside the canvas, and it
\* returns every cell whose rectangle has a positive-area intersection with
\* the box.
C25_CellsInBoundingBox ==
    \A b \in PoolBoxes :
       LET ids == Range(getCellsInBoundingBox(b, gridSize, canvasWidth,
                                              canvasHeight))
       IN  /\ \A id \in ids :
                /\ id \in CellIds(gridSize)
                /\ id \div gridSize \in 0..(gridSize - 1)
                /\ id % gridSize \in 0..(gridSize - 1)
           /\ \A i \in DOMAIN cells :
                calculateIntersection(cells[i], b) > 0 => i \in ids

\* the case of C25_CellsInBoundingBox: updateDetections has mapped a box
\* that reaches across the right and bottom edges of the canvas of a 7x7
\* grid: the last cell is owned by it and the first cell is not
C25_Witness ==
    /\ gridSize = 7
    /\ Len(detections) = 1
    /\ detections[1].bbox = <<350, 150, 200, 200>>
    /\ cells[48].detection = detections[1]
    /\ cells[0].detection = NoDetection

\* C25: for every box of F64Pool and every grid of a reachable state of
\* SpecF64, getCellsInBoundingBox returns only ids of cells of the grid (row
\* and col within [0, N-1]), and it returns every cell whose rectangle has a
\* positive-area intersection with the box, the rectangle being the x, y,
\* width and height the cell holds and the area what calculateIntersection
\* returns for it.
C25_CellsInBoundingBoxF64 ==
    \A d \in F64Pool :
       LET ids == Range(getCellsInBoundingBoxF64(d.bbox, gridSize,
                                                 canvasWidth, canvasHeight))
       IN  /\ \A id \in ids :
                /\ id \in CellIds(gridSize)
                /\ id \div gridSize \in 0..(gridSize - 1)
                /\ id % gridSize \in 0..(gridSize - 1)
           /\ \A i \in DOMAIN cells :
                F64GT(calculateIntersectionF64(cells[i], d.bbox), F64Zero)
                   => i \in ids

(***************************************************************************)
(* Invariants of the cells                                                 *)
(***************************************************************************)
\* C23 in exact arithmetic: at every reachable state every cell's confidence
\* is within [0,1],
\* for detection scores within [0,1] and canvases of positive size, across
\* updateDetections, idle activation and deactivation, clearDetections,
\* setGridSize and resize.
C23_ConfidenceInUnitInterval ==
    \A i \in DOMAIN cells : InUnitInterval(cells[i].confidence)

\* the case of C23_ConfidenceInUnitInterval: a cell carries the full score
\* of a detection that covers it, and another cell carries a positive
\* confidence that is not what the current list yields on the current
\* geometry (kept across a resize or a later mapping)
C23_Witness ==
    /\ \E i \in DOMAIN cells : cells[i].confidence = Rat(90, ScoreDen)
    /\ \E i \in DOMAIN cells :
          /\ cells[i].confidence # Zero
          /\ cells[i].confidence # MaxAdjusted(i, detections)

\* C23: at every reachable state of SpecF64 every cell's confidence, the
\* double the source stores, is within [0,1], for detection scores within
\* [0,1] and canvases of positive size, across updateDetections,
\* clearDetections, setGridSize and resize (a double here is never below 0).
C23_ConfidenceInUnitIntervalF64 ==
    \A i \in DOMAIN cells : ~F64GT(cells[i].confidence, F64One)

\* cell i exists and is 'inactive' with confidence 0 and no owner
IsCleared(i) ==
    /\ i \in DOMAIN cells
    /\ cells[i].state = "inactive"
    /\ cells[i].confidence = Zero
    /\ cells[i].detection = NoDetection

\* C26: a cell the idle simulation has activated (its deactivation timeout
\* is pending) is eventually 'inactive' with confidence 0 and no owner,
\* given that pending timeouts eventually fire, whatever updateDetections,
\* stop or start calls happen in between.
C26_ActivatedEventuallyReset ==
    \A i \in SimCells : (i \in DOMAIN timeouts) ~> IsCleared(i)

\* C26 witness: the timeout of cell 4 is pending, the grid has been stopped
\* and updateDetections has given the cell a detection state and an owner
C26_Witness ==
    /\ 4 \in DOMAIN timeouts
    /\ ~isRunning
    /\ cells[4].state \in {"detecting", "detected", "confident"}
    /\ cells[4].detection # NoDetection

\* C27 (as stated; refuted): at every reachable state activeCells is
\* exactly the set of ids of the cells whose state is not 'inactive'.
\* mapDetectionToGrid moves an inactive cell to a detection state without
\* adding it, and createGrid replaces the cells without clearing the set.
C27_ActiveCellsAreNonInactive ==
    activeCells = { i \in DOMAIN cells : cells[i].state # "inactive" }

\* C28 (as stated; refuted): at every reachable state a cell whose state is
\* 'inactive' has confidence 0 and no owning detection.  mapDetectionToGrid
\* gives an inactive cell the confidence and the owner of a detection whose
\* adjusted confidence is positive and at most 0.1, and leaves its state.
C28_InactiveCellsAreBlank ==
    \A i \in DOMAIN cells :
       cells[i].state = "inactive" =>
          /\ cells[i].confidence = Zero
          /\ cells[i].detection = NoDetection

\* C29 (as stated; refuted): a deactivation timeout that fires for a cell
\* in state 'detecting', 'detected' or 'confident' leaves the cell's state,
\* confidence and owner as they are.  deactivateCell resets the cell
\* whatever its state.
C29_TimeoutSparesDetections ==
    [][ \A id \in DOMAIN timeouts :
           ( /\ TimeoutFires(id)
             /\ id \in DOMAIN cells
             /\ cells[id].state \in {"detecting", "detected", "confident"} )
           => Shown(cells')[id] = Shown(cells)[id] ]_vars

(***************************************************************************)
(* Properties of CameraHandler.start() and stop()                          *)
(***************************************************************************)
\* a stop() has run while the one pending start() awaited checkPermissions
\* or getUserMedia, and nothing has been notified since: start() set the
\* status 'connecting', only stop() sets 'stopped', and a stop() during
\* play() leaves the start() at "playAborted"
StoppedWhileStarting ==
    /\ Pending(starts) = 1
    /\ \A flow \in DOMAIN starts :
          flow.pc \in {"permission", "getUserMedia", "play"}
    /\ cameraStatus = "stopped"

\* C30 (as stated; refuted): when a stop() has run while a start() was
\* awaiting permission or the stream, then once that start() has finished
\* the camera is
\* inactive, holds no stream and has no frame interval.  start() tests
\* nothing after its awaits and goes on to acquire the stream and to start
\* the frame interval.
C30_StopNotOverridden ==
    [][ (StoppedWhileStarting /\ Pending(starts') = 0) =>
          /\ ~cameraIsActive'
          /\ ~stream'
          /\ ~frameInterval' ]_vars


====
